---- MODULE Spec2Model ----
(***************************************************************************)
(* Persistence and migration engine of LRN (lrn/persist.py).               *)
(*                                                                         *)
(* Part 1: init_db and the migrations, one action per SQL statement, on    *)
(*         the schema objects of the store (tables, columns, indexes,      *)
(*         triggers, PRAGMA user_version).                                 *)
(* Part 2: the Upsert API on the rows of a store opened by init_db.        *)
(* Part 3: the history crawl (lrn/history.py) and the pipeline commands    *)
(*         of lrn/cli.py that feed its index into the store (extract with  *)
(*         history sidecars, db import-history).                           *)
(* Part 4: HistoryCrawler.fetch and its on-disk cache.                     *)
(***************************************************************************)
EXTENDS Integers, Sequences, FiniteSets, TLC

VARIABLES
    user_version,  \* PRAGMA user_version of the store file
    schema,        \* table name -> [cols, rows] of the store file
    indexes,       \* names of the indexes of the store file
    triggers,      \* names of the triggers of the store file
    pc,            \* init_db: "closed", "running", "returned", "raised"
    step,          \* init_db: the migration step being run (0 = baseline .. 3)
    idx,           \* init_db: position in the statements of the step
    uv,            \* init_db: its local variable user_version
    linkcols,      \* migrate_2_to_3: its local variable cols
    in_txn,        \* the connection's in_transaction
    fk_on,         \* the connection's PRAGMA foreign_keys
    opens,         \* number of init_db calls made so far
    faults,        \* number of statement failures injected so far
    uv0,           \* the marker read by the running or last init_db call
    legacy0,       \* rows the legacy fragment_links table held at the start
    failedSteps,   \* steps that have failed part-way in some init_db call
    outcome,       \* how the last finished init_db call ended: "returned", "raised"
    db,            \* rows of the content tables, as committed
    clock,         \* the wall clock (utc_now / strftime('now'))
    ret,           \* outcome of the last Upsert API call
    last,          \* the last Upsert API call: operation and arguments
    ops,           \* number of Upsert API calls made so far
    cpc,           \* pipeline: "idle", "link", "snap", "finish", "persist", "sync", "done"
    runs,          \* number of pipeline commands started so far
    today,         \* the day of the running command (position in Days)
    max_dates,     \* HistoryCrawler.max_dates of the running extract
    links,         \* crawl_from_fragment: links
    li,            \* crawl_from_fragment: position of `link` in links
    page,          \* enumerate_versions: the listing page fetched (its anchors), or FetchFailed
    versions,      \* crawl_from_fragment: versions (of the current link)
    vi,            \* crawl_from_fragment: position of `it` in versions
    out_items,     \* crawl_from_fragment: out_items (of the current link)
    index,         \* crawl_from_fragment: index (in memory)
    files,         \* instrument directory: history/<code>/<date>.html -> text
    indexjson,     \* instrument directory: history/index.json (NoFile when absent)
    current,       \* instrument directory: current.xhtml (NoFile when absent)
    ci,            \* post-crawl sync: position of frag_code in index.json
    rc,            \* the last db import-history command: its mode and how it ended
    snaps,         \* snapshot() calls of the running crawl, each with its result
    indexed,       \* <<code, date>> of every entry ever written to index.json
    placeholders,  \* <<code, date>> of every placeholder entry ever emitted
    fetchFaults,   \* number of fetches of the crawl that raised so far
    cache_dir,     \* fetch: HistoryCrawler.cache_dir
    remote,        \* fetch: url -> what the server returns now
    cache,         \* fetch: cache file name -> text of the file
    requests,      \* fetch: number of session.get calls made so far
    firstGot,      \* fetch: url -> text the first successful fetch returned
    fetched,       \* fetch: the last call: its number, url and what it returned or raised
    fe,            \* corpus_ingest.fetch_entry: its locals and its result
    legacy,        \* db import-legacy: the rows of the legacy source
    cmd,           \* the last db import-legacy, verify or query command
    applied,       \* number of db import-legacy apply runs that ended with OK
    world          \* the input file and the remote responses of repeated extract runs

migVars == <<user_version, schema, indexes, triggers, pc, step, idx, uv,
             linkcols, opens, faults, uv0, legacy0, failedSteps, outcome>>
connVars == <<in_txn, fk_on>>
apiVars == <<db, clock, ret, last, ops>>
crawlVars == <<cpc, runs, today, max_dates, links, li, page, versions, vi, out_items,
               index, files, indexjson, current, ci, rc, snaps, indexed, placeholders,
               fetchFaults>>
fetchVars == <<cache_dir, remote, cache, requests, firstGot, fetched>>
toolVars == <<fe, legacy, cmd, applied, world>>
vars == <<migVars, connVars, apiVars, crawlVars, fetchVars, toolVars>>

\* ---------------------------------------------------------------- bounds
MaxOpens == 3
MaxFaults == 2
MaxLegacyRows == 2
MaxOps == 2
MaxRuns == 2
MaxAnchors == 3
MaxFetchFaults == 1
MaxFetches == 3
MaxRetries == 2
MaxGets == 5
MaxSnapRows == 2

LatestVersion == 4

\* Python None / SQL NULL in a text column, and in an integer (id) position.
None == "None"
NoId == 0

\* ------------------------------------------------------------ statements
Stmt(op, name, table, cols, ver, script) ==
    [op |-> op, name |-> name, table |-> table, cols |-> cols, ver |-> ver,
     script |-> script]

Begin == Stmt("begin", "", "", {}, 0, FALSE)
CreateTable(name, cols) == Stmt("create_table", name, name, cols, 0, TRUE)
CreateIndex(name, table, col) == Stmt("create_index", name, table, col, 0, TRUE)
CreateIndex1(name, table, col) == Stmt("create_index", name, table, col, 0, FALSE)
CreateTrigger(name, table) == Stmt("create_trigger", name, table, {}, 0, TRUE)
AddColumn(table, col) == Stmt("add_column", col, table, {col}, 0, FALSE)
TableInfo(table) == Stmt("table_info", "", table, {}, 0, FALSE)
DropLegacyIndex(name) == Stmt("drop_index", name, "fragment_links", {}, 0, FALSE)
RenameLegacy == Stmt("rename", "fragment_links_legacy", "fragment_links", {}, 0, FALSE)
DropLegacy == Stmt("drop_table", "", "fragment_links", {}, 0, FALSE)
SetVersion(n) == Stmt("set_version", "", "", {}, n, FALSE)

\* The version each step records with PRAGMA user_version = N.
StepTargetSkip(j) == IF j = 2 THEN 4 ELSE j + 1
StepTarget(j) == j + 1

InstrumentCols == {"id", "name", "source_url", "created_at", "updated_at", "metadata_json"}
FragmentCols == {"id", "instrument_id", "code", "created_at", "updated_at", "metadata_json"}
CurrentCols == {"id", "fragment_id", "url", "content_text", "content_hash",
                "extracted_at", "metadata_json"}
HistoricalCols == {"id", "fragment_id", "content_text", "content_hash", "date",
                   "metadata_json"}
ChangeCols == {"id", "historical_fragment_id", "change_type", "old_value", "new_value"}
JurisdictionColsV2 == {"id", "code", "name", "type", "parent_id", "created_at",
                       "updated_at", "metadata_json"}
JurisdictionColsV3 == {"id", "code", "name", "level"}
SnapshotCols == {"id", "fragment_id", "date", "url", "content_text", "content_hash",
                 "retrieved_at", "etag", "last_modified", "metadata_json"}
TagColsV2 == {"id", "name", "category", "created_at", "updated_at", "metadata_json"}
TagColsV3 == {"id", "name"}
FragmentTagCols == {"fragment_id", "tag_id"}
LegacyLinkCols == {"id", "src_fragment_id", "dst_fragment_id", "link_type",
                   "created_at", "metadata_json"}
LinkCols == {"id", "from_fragment_id", "to_snapshot_id", "link_type", "created_at"}
AnnexCols == {"id", "fragment_id", "pdf_url", "pdf_path", "md_path", "content_sha256",
              "converter_tool", "converter_version", "provenance_yaml", "converted_at",
              "conversion_status", "warnings_json", "metadata_json"}

\* init_db, the user_version == 0 branch.
BaselineStmts ==
    << Begin,
       CreateTable("instruments", InstrumentCols),
       CreateIndex("idx_instruments_source_url", "instruments", {"source_url"}),
       CreateTable("fragments", FragmentCols),
       CreateIndex("idx_fragments_instrument_code", "fragments", {"instrument_id", "code"}),
       CreateTable("current_pages", CurrentCols),
       CreateIndex("idx_current_pages_url", "current_pages", {"url"}),
       CreateIndex("idx_current_pages_hash", "current_pages", {"content_hash"}),
       CreateTrigger("trg_instruments_updated_at", "instruments"),
       CreateTrigger("trg_fragments_updated_at", "fragments"),
       CreateTable("historical_fragments", HistoricalCols),
       CreateTable("fragment_changes", ChangeCols),
       SetVersion(StepTarget(0)) >>

Migrate12Stmts ==
    << Begin,
       CreateTable("jurisdictions", JurisdictionColsV2),
       CreateIndex("idx_jurisdictions_parent", "jurisdictions", {"parent_id"}),
       CreateIndex("idx_jurisdictions_code", "jurisdictions", {"code"}),
       CreateTrigger("trg_jurisdictions_updated_at", "jurisdictions"),
       AddColumn("instruments", "official_number"),
       AddColumn("instruments", "publication_date"),
       AddColumn("instruments", "jurisdiction_id"),
       AddColumn("instruments", "is_archived"),
       CreateIndex("idx_instruments_jurisdiction_id", "instruments", {"jurisdiction_id"}),
       CreateIndex("idx_instruments_official_number", "instruments", {"official_number"}),
       AddColumn("fragments", "parent_id"),
       AddColumn("fragments", "display_order"),
       AddColumn("fragments", "source_id"),
       AddColumn("fragments", "block_type"),
       CreateIndex("idx_fragments_parent_id", "fragments", {"parent_id"}),
       CreateIndex("idx_fragments_instrument_display", "fragments",
                   {"instrument_id", "display_order"}),
       CreateTable("snapshots", SnapshotCols),
       CreateIndex("idx_snapshots_fragment_date", "snapshots", {"fragment_id", "date"}),
       CreateIndex("idx_snapshots_etag", "snapshots", {"etag"}),
       CreateIndex("idx_snapshots_last_modified", "snapshots", {"last_modified"}),
       CreateIndex("idx_snapshots_hash", "snapshots", {"content_hash"}),
       CreateTable("tags", TagColsV2),
       CreateTrigger("trg_tags_updated_at", "tags"),
       CreateTable("fragment_tags", FragmentTagCols),
       CreateIndex("idx_fragment_tags_tag", "fragment_tags", {"tag_id"}),
       CreateTable("fragment_links", LegacyLinkCols),
       CreateIndex("idx_fragment_links_src", "fragment_links", {"src_fragment_id"}),
       CreateIndex("idx_fragment_links_dst", "fragment_links", {"dst_fragment_id"}),
       CreateIndex("idx_fragment_links_type", "fragment_links", {"link_type"}),
       SetVersion(StepTarget(1)) >>

Migrate23Head ==
    << Begin,
       CreateTable("annexes", AnnexCols),
       CreateIndex("idx_annexes_fragment_id", "annexes", {"fragment_id"}),
       CreateTable("jurisdictions", JurisdictionColsV3),
       AddColumn("instruments", "jurisdiction_id"),
       CreateIndex1("idx_instruments_jurisdiction", "instruments", {"jurisdiction_id"}),
       CreateTable("tags", TagColsV3),
       CreateTable("fragment_tags", FragmentTagCols),
       CreateIndex("idx_fragment_tags_tag", "fragment_tags", {"tag_id"}),
       TableInfo("fragment_links"),
       DropLegacyIndex("idx_fragment_links_src"),
       DropLegacyIndex("idx_fragment_links_dst"),
       DropLegacyIndex("idx_fragment_links_type") >>

Migrate23Tail ==
    << CreateTable("fragment_links", LinkCols),
       CreateIndex("idx_fragment_links_from", "fragment_links", {"from_fragment_id"}),
       SetVersion(StepTarget(2)) >>

Migrate23Stmts == Migrate23Head \o <<RenameLegacy>> \o Migrate23Tail

Migrate34Stmts ==
    << Begin,
       CreateTable("historical_fragments", HistoricalCols),
       CreateTable("fragment_changes", ChangeCols),
       SetVersion(StepTarget(3)) >>

\* Mutants of the statement lists (used by the claims' mutation checks).
MarkerFirst(s) == <<s[1], s[Len(s)]>> \o SubSeq(s, 2, Len(s) - 1)

StmtsMarkerFirst(j) ==
    CASE j = 0 -> MarkerFirst(BaselineStmts)
      [] j = 1 -> MarkerFirst(Migrate12Stmts)
      [] j = 2 -> MarkerFirst(Migrate23Stmts)
      [] OTHER -> MarkerFirst(Migrate34Stmts)

StmtsDropLegacy(j) ==
    CASE j = 0 -> BaselineStmts
      [] j = 1 -> Migrate12Stmts
      [] j = 2 -> Migrate23Head \o <<DropLegacy>> \o Migrate23Tail
      [] OTHER -> Migrate34Stmts

\* The statements of step j, in the order the code issues them.
Stmts(j) ==
    CASE j = 0 -> BaselineStmts
      [] j = 1 -> Migrate12Stmts
      [] j = 2 -> Migrate23Stmts
      [] OTHER -> Migrate34Stmts

\* ------------------------------------------------- statement semantics
EmptySchema == [n \in {} |-> [cols |-> {}, rows |-> {}]]

FreshStore ==
    [schema |-> EmptySchema, indexes |-> {}, triggers |-> {}, user_version |-> 0,
     linkcols |-> {}, in_txn |-> FALSE]

HasTable(S, t) == t \in DOMAIN S.schema

\* migrate_2_to_3's test: cols and ("src_fragment_id" in cols or "dst_fragment_id" in cols)
LegacyShape(cols) ==
    cols # {} /\ ("src_fragment_id" \in cols \/ "dst_fragment_id" \in cols)

\* Statements under an `if` of the Python code: whether the code issues them.
Issued(s, S) ==
    CASE s.op \in {"drop_index", "rename", "drop_table"} -> LegacyShape(S.linkcols)
      [] s.op = "add_column" -> HasTable(S, s.table) => ~(s.name \in S.schema[s.table].cols)
      [] OTHER -> TRUE

\* Whether SQLite rejects the statement in store S.
Raises(s, S) ==
    /\ Issued(s, S)
    /\ CASE s.op = "create_index" ->
                \/ ~HasTable(S, s.table)
                \/ s.name \notin S.indexes /\ ~(s.cols \subseteq S.schema[s.table].cols)
         [] s.op = "create_trigger" -> ~HasTable(S, s.table)
         [] s.op = "add_column" -> ~HasTable(S, s.table)
         [] s.op = "rename" ->
                \/ ~HasTable(S, s.table)
                \/ HasTable(S, s.name)
                \/ s.name \in S.indexes
         [] s.op = "begin" -> S.in_txn
         [] OTHER -> FALSE

RenameTable(sch, old, new) ==
    [n \in (DOMAIN sch \ {old}) \cup {new} |-> IF n = new THEN sch[old] ELSE sch[n]]

\* The store after statement s, when SQLite accepts it.  executescript first
\* commits a pending transaction, and DDL and PRAGMA statements open none.
ApplyStmt(s, S) ==
    LET T == IF s.script THEN [S EXCEPT !.in_txn = FALSE] ELSE S IN
    IF ~Issued(s, S) THEN T
    ELSE CASE s.op = "begin" -> [T EXCEPT !.in_txn = TRUE]
           [] s.op = "create_table" ->
                IF HasTable(T, s.name) THEN T
                ELSE [T EXCEPT !.schema =
                        [n \in DOMAIN T.schema \cup {s.name} |->
                            IF n = s.name THEN [cols |-> s.cols, rows |-> {}]
                            ELSE T.schema[n]]]
           [] s.op = "create_index" -> [T EXCEPT !.indexes = @ \cup {s.name}]
           [] s.op = "create_trigger" -> [T EXCEPT !.triggers = @ \cup {s.name}]
           [] s.op = "add_column" ->
                [T EXCEPT !.schema[s.table].cols = @ \cup s.cols]
           [] s.op = "table_info" ->
                [T EXCEPT !.linkcols =
                    IF HasTable(T, s.table) THEN T.schema[s.table].cols ELSE {}]
           [] s.op = "drop_index" -> [T EXCEPT !.indexes = @ \ {s.name}]
           [] s.op = "rename" ->
                [T EXCEPT !.schema = RenameTable(T.schema, s.table, s.name)]
           [] s.op = "drop_table" ->
                [T EXCEPT !.schema = [n \in DOMAIN T.schema \ {s.table} |-> T.schema[n]]]
           [] s.op = "set_version" -> [T EXCEPT !.user_version = s.ver]
           [] OTHER -> T

\* The store a statement list without conditional statements builds on an
\* empty file: CREATE ... IF NOT EXISTS keeps the first shape of a table, the
\* guarded ALTER TABLE ADD COLUMN adds to it.
TablesIn(stmts) ==
    {stmts[i].name : i \in {k \in DOMAIN stmts : stmts[k].op = "create_table"}}

ColsAfter(stmts, t) ==
    LET first == CHOOSE i \in DOMAIN stmts :
                    /\ stmts[i].op = "create_table" /\ stmts[i].name = t
                    /\ \A k \in 1..(i - 1) :
                          ~(stmts[k].op = "create_table" /\ stmts[k].name = t)
    IN stmts[first].cols \cup
       UNION {stmts[i].cols :
                i \in {k \in DOMAIN stmts : stmts[k].op = "add_column"
                                             /\ stmts[k].table = t}}

SchemaAfter(stmts) ==
    [t \in TablesIn(stmts) |-> [cols |-> ColsAfter(stmts, t), rows |-> {}]]

NamesAfter(stmts, op) ==
    {stmts[i].name : i \in {k \in DOMAIN stmts : stmts[k].op = op}}

\* A store left at version 2 by init_db before migrate_2_to_3 existed, whose
\* fragment_links table (src_fragment_id/dst_fragment_id shape) holds rows R.
V2Store(R) ==
    LET stmts == BaselineStmts \o Migrate12Stmts
        sch == SchemaAfter(stmts) IN
    [schema |-> [sch EXCEPT !["fragment_links"].rows = R],
     indexes |-> NamesAfter(stmts, "create_index"),
     triggers |-> NamesAfter(stmts, "create_trigger"),
     user_version |-> 2, linkcols |-> {}, in_txn |-> FALSE]

\* ------------------------------------------------------------- init_db
\* The chain of `if user_version == j` tests from step k on: the step that runs
\* next, or 4 when init_db falls through to `return conn`.
Dispatch(k, v) == IF v \in k..3 THEN v ELSE 4

\* init_db's local user_version after step j (lines 372, 378-380; no refresh
\* after migrate_2_to_3 and migrate_3_to_4).
UvAfter(j, v, marker) ==
    CASE j = 0 -> 1
      [] j = 1 -> marker
      [] OTHER -> v

CurStore ==
    [schema |-> schema, indexes |-> indexes, triggers |-> triggers,
     user_version |-> user_version, linkcols |-> linkcols, in_txn |-> in_txn]

SetStore(T) ==
    /\ schema' = T.schema
    /\ indexes' = T.indexes
    /\ triggers' = T.triggers
    /\ user_version' = T.user_version
    /\ linkcols' = T.linkcols
    /\ in_txn' = T.in_txn

CurStmt == Stmts(step)[idx]

\* Control after statement idx of the running step went through.
Advance(marker) ==
    IF idx < Len(Stmts(step))
    THEN /\ idx' = idx + 1
         /\ UNCHANGED <<pc, step, uv>>
    ELSE LET v == UvAfter(step, uv, marker)
             j == Dispatch(step + 1, v) IN
         /\ uv' = v
         /\ idx' = 1
         /\ IF j = 4 THEN pc' = "returned" /\ step' = step
                     ELSE pc' = "running" /\ step' = j

\* init_db up to the first statement: connect, pragmas, read PRAGMA user_version.
InitDbOpen ==
    /\ pc = "closed"
    /\ opens < MaxOpens
    /\ opens' = opens + 1
    /\ fk_on' = TRUE
    /\ uv' = user_version
    /\ uv0' = user_version
    /\ idx' = 1
    /\ LET j == Dispatch(0, user_version) IN
        IF j = 4 THEN pc' = "returned" /\ step' = step
                 ELSE pc' = "running" /\ step' = j
    /\ UNCHANGED <<user_version, schema, indexes, triggers, linkcols, in_txn,
                   faults, legacy0, failedSteps, outcome, apiVars, crawlVars, fetchVars, toolVars>>

\* except Exception: conn.rollback(); raise  (in the step and again in init_db)
RaiseOut ==
    /\ pc' = "raised"
    /\ in_txn' = FALSE
    /\ failedSteps' = failedSteps \cup {step}
    /\ UNCHANGED <<schema, indexes, triggers, user_version, linkcols, step, idx, uv>>

\* One statement of the running step.
ExecStmt ==
    /\ pc = "running"
    /\ IF Raises(CurStmt, CurStore)
       THEN RaiseOut
       ELSE /\ SetStore(ApplyStmt(CurStmt, CurStore))
            /\ Advance(ApplyStmt(CurStmt, CurStore).user_version)
            /\ UNCHANGED failedSteps
    /\ UNCHANGED <<fk_on, opens, faults, uv0, legacy0, outcome, apiVars, crawlVars, fetchVars, toolVars>>

\* A statement fails for a reason outside the program (I/O error, full disk,
\* locked file).  The DROP INDEX statements are best-effort (try/except: pass),
\* a failing PRAGMA table_info leaves cols = [].
Fault ==
    /\ pc = "running"
    /\ faults < MaxFaults
    /\ Issued(CurStmt, CurStore)
    /\ faults' = faults + 1
    /\ CASE CurStmt.op = "drop_index" ->
                /\ Advance(user_version)
                /\ UNCHANGED <<schema, indexes, triggers, user_version, linkcols,
                               in_txn, failedSteps>>
         [] CurStmt.op = "table_info" ->
                /\ linkcols' = {}
                /\ Advance(user_version)
                /\ UNCHANGED <<schema, indexes, triggers, user_version, in_txn,
                               failedSteps>>
         [] OTHER -> RaiseOut
    /\ UNCHANGED <<fk_on, opens, uv0, legacy0, outcome, apiVars, crawlVars, fetchVars, toolVars>>

\* The caller is done with the connection (or the process ends).
CloseDb ==
    /\ pc \in {"returned", "raised"}
    /\ pc' = "closed"
    /\ in_txn' = FALSE
    /\ fk_on' = FALSE
    /\ outcome' = pc
    /\ UNCHANGED <<user_version, schema, indexes, triggers, step, idx, uv, linkcols,
                   opens, faults, uv0, legacy0, failedSteps, apiVars, crawlVars, fetchVars, toolVars>>

\* A file that does not exist.
NoFile == [exists |-> FALSE]
NoCommand == [dry_run |-> TRUE, code |-> "none"]

\* No pipeline command has run: the output directory holds no instrument.
CrawlIdle ==
    /\ cpc = "idle"
    /\ runs = 0
    /\ today = 1
    /\ max_dates = -1
    /\ links = <<>>
    /\ li = 1
    /\ page = [ok |-> TRUE, anchors |-> <<>>]
    /\ versions = <<>>
    /\ vi = 1
    /\ out_items = <<>>
    /\ index = <<>>
    /\ files = <<>>
    /\ indexjson = NoFile
    /\ current = NoFile
    /\ ci = 1
    /\ rc = NoCommand
    /\ snaps = {}
    /\ indexed = {}
    /\ placeholders = {}
    /\ fetchFaults = 0

\* No fetch has been made: the cache directory is empty.
\* fetch_entry has not been called.
FetchEntryIdle == [pc |-> "idle", retries |-> 0, attempt |-> 0, gets |-> 0, status |-> "none", error |-> None, resume |-> FALSE, present |-> FALSE]

\* No legacy source, no figures printed.
NoLegacy == [jur |-> None, frags |-> <<>>, cur |-> {}, snaps |-> <<>>, tagged |-> {}]
NoCounts == [instruments |-> 0, fragments |-> 0, current |-> 0, snapshots |-> 0]

\* The last db command on the store: its options, what it printed and its
\* exit status.  fresh: the store held no row when the command started.
NoCmd ==
    [name |-> "none", preview |-> FALSE, out_dir |-> FALSE, juris |-> None,
     query |-> None, filt |-> None, strict |-> FALSE, rc |-> "none",
     counts |-> NoCounts, fresh |-> FALSE]

NoWorld == [raw |-> <<>>, pages |-> <<>>]

ToolIdle ==
    /\ fe = FetchEntryIdle
    /\ legacy = NoLegacy
    /\ cmd = NoCmd
    /\ applied = 0
    /\ world = NoWorld

FetchIdle ==
    /\ cache_dir = None
    /\ remote = <<>>
    /\ cache = <<>>
    /\ requests = 0
    /\ firstGot = <<>>
    /\ fetched = [n |-> 0, url |-> <<>>, err |-> "none", text |-> <<>>]

EmptyDb ==
    [instruments |-> {}, fragments |-> {}, current_pages |-> {}, snapshots |-> {},
     fragment_links |-> {}, annexes |-> {}, jurisdictions |-> {}, tags |-> {},
     fragment_tags |-> {}]

NoCall == [op |-> "none", args |-> <<>>]

InitMigrate ==
    /\ \E S \in {FreshStore} \cup {V2Store(R) : R \in SUBSET (1..MaxLegacyRows)} :
        /\ schema = S.schema
        /\ indexes = S.indexes
        /\ triggers = S.triggers
        /\ user_version = S.user_version
        /\ legacy0 = IF HasTable(S, "fragment_links")
                     THEN S.schema["fragment_links"].rows ELSE {}
    /\ pc = "closed"
    /\ step = 0
    /\ idx = 1
    /\ uv = 0
    /\ linkcols = {}
    /\ in_txn = FALSE
    /\ fk_on = FALSE
    /\ opens = 0
    /\ faults = 0
    /\ uv0 = 0
    /\ failedSteps = {}
    /\ outcome = "none"
    /\ db = EmptyDb
    /\ clock = 0
    /\ ret = [err |-> "none", id |-> NoId]
    /\ last = NoCall
    /\ ops = 0
    /\ CrawlIdle
    /\ FetchIdle
    /\ ToolIdle

NextMigrate == InitDbOpen \/ ExecStmt \/ Fault \/ CloseDb

SpecMigrate == InitMigrate /\ [][NextMigrate]_vars

\* ----------------------------------------------------------- Upsert API
Names == {"n1", "n2"}
Urls == {None, "u1"}
Metas == {None, "m1"}
Codes == {"c1", "c2"}
Dates == {"20200101", "20240229"}
Texts == {"t1", "t2"}
Etags == {None, "e1"}
PdfUrls == {"p1", "p2"}
Statuses == {"success", "failed"}
JurCodes == {"QC", "ON"}
JurNames == {None, "Quebec"}
TagNames == {"tg1", "tg2"}
LinkTypes == {"version"}
ArgIds == {1, 2}

\* sha256_hex: distinct texts of the model have distinct digests.
sha256_hex(text) == <<"sha256", text>>

Coalesce(a, b) == IF a # None THEN a ELSE b

IdsOf(rows) == {r.id : r \in rows}

\* INTEGER PRIMARY KEY without AUTOINCREMENT: one more than the largest rowid.
NewId(rows) ==
    IF rows = {} THEN 1
    ELSE (CHOOSE i \in IdsOf(rows) : \A k \in IdsOf(rows) : k <= i) + 1

\* Outcomes of one API call: the rows afterwards, what the caller gets, and
\* whether the connection is left inside a transaction.
Returned(D, r) == [db |-> D, ret |-> [err |-> "none", id |-> r], txn |-> FALSE]
IntegrityError(D) ==
    [db |-> D, ret |-> [err |-> "IntegrityError", id |-> NoId], txn |-> TRUE]
OperationalError(D) ==
    [db |-> D, ret |-> [err |-> "OperationalError", id |-> NoId], txn |-> in_txn]

\* The statement names only columns the table has (else it does not prepare).
Prepares(table, cols) ==
    /\ table \in DOMAIN schema
    /\ cols \subseteq schema[table].cols

\* PRAGMA foreign_keys=ON (set by _apply_connection_pragmas): an insert whose
\* REFERENCES parent row is absent fails.
FkViolationOff(parents, id) == FALSE
FkViolation(parents, id) == fk_on /\ id \notin IdsOf(parents)

\* ON CONFLICT(name) DO NOTHING instead of DO UPDATE: a second call changes nothing.
upsert_instrument_do_nothing(D, name, source_url, metadata_json, now) ==
    IF \E r \in D.instruments : r.name = name
    THEN Returned(D, (CHOOSE r \in D.instruments : r.name = name).id)
    ELSE LET id == NewId(D.instruments)
             new == [id |-> id, name |-> name, source_url |-> source_url,
                     metadata_json |-> metadata_json, created_at |-> now,
                     updated_at |-> now, jurisdiction_id |-> NoId]
         IN Returned([D EXCEPT !.instruments = @ \cup {new}], id)

upsert_instrument(D, name, source_url, metadata_json, now) ==
    IF ~Prepares("instruments", {"name", "source_url", "metadata_json", "updated_at"})
    THEN OperationalError(D)
    ELSE IF \E r \in D.instruments : r.name = name
    THEN LET old == CHOOSE r \in D.instruments : r.name = name
             new == [old EXCEPT !.source_url = source_url,
                                !.metadata_json = Coalesce(metadata_json, old.metadata_json),
                                !.updated_at = now]
         IN Returned([D EXCEPT !.instruments = (@ \ {old}) \cup {new}], old.id)
    ELSE LET id == NewId(D.instruments)
             new == [id |-> id, name |-> name, source_url |-> source_url,
                     metadata_json |-> metadata_json, created_at |-> now,
                     updated_at |-> now, jurisdiction_id |-> NoId]
         IN Returned([D EXCEPT !.instruments = @ \cup {new}], id)

\* INSERT OR REPLACE instead of ON CONFLICT DO NOTHING: the conflicting row is
\* deleted (its snapshots, links, pages, annexes and tags cascade) and a new row
\* is inserted.
upsert_fragment_replace(D, instrument_id, code, metadata_json, now) ==
    IF FkViolation(D.instruments, instrument_id) THEN IntegrityError(D)
    ELSE LET olds == {r \in D.fragments : r.instrument_id = instrument_id /\ r.code = code}
             gone == IdsOf(olds)
             goneSnaps == {r.id : r \in {x \in D.snapshots : x.fragment_id \in gone}}
             id == NewId(D.fragments)
             new == [id |-> id, instrument_id |-> instrument_id, code |-> code,
                     metadata_json |-> metadata_json, created_at |-> now,
                     updated_at |-> now]
         IN Returned([D EXCEPT
                !.fragments = (@ \ olds) \cup {new},
                !.current_pages = {r \in @ : r.fragment_id \notin gone},
                !.snapshots = {r \in @ : r.fragment_id \notin gone},
                !.annexes = {r \in @ : r.fragment_id \notin gone},
                !.fragment_tags = {r \in @ : r.fragment_id \notin gone},
                !.fragment_links = {r \in @ : r.from_fragment_id \notin gone
                                              /\ r.to_snapshot_id \notin goneSnaps}], id)

upsert_fragment(D, instrument_id, code, metadata_json, now) ==
    IF ~Prepares("fragments", {"instrument_id", "code", "metadata_json"})
    THEN OperationalError(D)
    ELSE IF \E r \in D.fragments : r.instrument_id = instrument_id /\ r.code = code
    THEN LET old == CHOOSE r \in D.fragments :
                        r.instrument_id = instrument_id /\ r.code = code
         IN Returned(D, old.id)
    ELSE IF FkViolation(D.instruments, instrument_id) THEN IntegrityError(D)
    ELSE LET id == NewId(D.fragments)
             new == [id |-> id, instrument_id |-> instrument_id, code |-> code,
                     metadata_json |-> metadata_json, created_at |-> now,
                     updated_at |-> now]
         IN Returned([D EXCEPT !.fragments = @ \cup {new}], id)

upsert_current(D, fragment_id, url, content_text, content_hash, extracted_at, metadata_json) ==
    IF ~Prepares("current_pages", {"fragment_id", "url", "content_text", "content_hash",
                                   "extracted_at", "metadata_json"})
    THEN OperationalError(D)
    ELSE IF \E r \in D.current_pages : r.fragment_id = fragment_id
    THEN LET old == CHOOSE r \in D.current_pages : r.fragment_id = fragment_id
             new == [old EXCEPT !.url = url,
                                !.content_text = content_text,
                                !.content_hash = content_hash,
                                !.extracted_at = extracted_at,
                                !.metadata_json = Coalesce(metadata_json, old.metadata_json)]
         IN Returned([D EXCEPT !.current_pages = (@ \ {old}) \cup {new}], NoId)
    ELSE IF FkViolation(D.fragments, fragment_id) THEN IntegrityError(D)
    ELSE LET new == [id |-> NewId(D.current_pages), fragment_id |-> fragment_id,
                     url |-> url, content_text |-> content_text,
                     content_hash |-> content_hash, extracted_at |-> extracted_at,
                     metadata_json |-> metadata_json]
         IN Returned([D EXCEPT !.current_pages = @ \cup {new}], NoId)

\* A snapshots table without UNIQUE(fragment_id, date): every call inserts.
upsert_snapshot_no_unique(D, fragment_id, date, url, content_text, content_hash, retrieved_at, etag, last_modified, metadata_json) ==
    IF FkViolation(D.fragments, fragment_id) THEN IntegrityError(D)
    ELSE LET new == [id |-> NewId(D.snapshots), fragment_id |-> fragment_id,
                     date |-> date, url |-> url, content_text |-> content_text,
                     content_hash |-> content_hash, retrieved_at |-> retrieved_at,
                     etag |-> etag, last_modified |-> last_modified,
                     metadata_json |-> metadata_json]
         IN Returned([D EXCEPT !.snapshots = @ \cup {new}], NoId)

upsert_snapshot(D, fragment_id, date, url, content_text, content_hash, retrieved_at, etag, last_modified, metadata_json) ==
    IF ~Prepares("snapshots", SnapshotCols \ {"id"})
    THEN OperationalError(D)
    ELSE IF \E r \in D.snapshots : r.fragment_id = fragment_id /\ r.date = date
    THEN LET old == CHOOSE r \in D.snapshots :
                        r.fragment_id = fragment_id /\ r.date = date
             new == [old EXCEPT !.url = url,
                                !.content_text = content_text,
                                !.content_hash = content_hash,
                                !.retrieved_at = retrieved_at,
                                !.etag = Coalesce(etag, old.etag),
                                !.last_modified = Coalesce(last_modified, old.last_modified),
                                !.metadata_json = Coalesce(metadata_json, old.metadata_json)]
         IN Returned([D EXCEPT !.snapshots = (@ \ {old}) \cup {new}], NoId)
    ELSE IF FkViolation(D.fragments, fragment_id) THEN IntegrityError(D)
    ELSE LET new == [id |-> NewId(D.snapshots), fragment_id |-> fragment_id,
                     date |-> date, url |-> url, content_text |-> content_text,
                     content_hash |-> content_hash, retrieved_at |-> retrieved_at,
                     etag |-> etag, last_modified |-> last_modified,
                     metadata_json |-> metadata_json]
         IN Returned([D EXCEPT !.snapshots = @ \cup {new}], NoId)

\* A variant whose INSERT names only the columns the table has.
upsert_jurisdiction_no_level(D, code, name, level, now) ==
    IF ~Prepares("jurisdictions", {"code", "name"})
    THEN OperationalError(D)
    ELSE IF name = None THEN IntegrityError(D)
    ELSE IF \E r \in D.jurisdictions : r.code = code
    THEN LET old == CHOOSE r \in D.jurisdictions : r.code = code
             new == [old EXCEPT !.name = name]
         IN Returned([D EXCEPT !.jurisdictions = (@ \ {old}) \cup {new}], old.id)
    ELSE LET id == NewId(D.jurisdictions)
             new == [id |-> id, code |-> code, name |-> name, level |-> level]
         IN Returned([D EXCEPT !.jurisdictions = @ \cup {new}], id)

upsert_jurisdiction(D, code, name, level, now) ==
    IF ~Prepares("jurisdictions", {"code", "name", "level"})
    THEN OperationalError(D)
    ELSE IF name = None THEN IntegrityError(D)
    ELSE IF \E r \in D.jurisdictions : r.code = code
    THEN LET old == CHOOSE r \in D.jurisdictions : r.code = code
             new == [old EXCEPT !.name = name, !.level = level]
         IN Returned([D EXCEPT !.jurisdictions = (@ \ {old}) \cup {new}], old.id)
    ELSE LET id == NewId(D.jurisdictions)
             new == [id |-> id, code |-> code, name |-> name, level |-> level]
         IN Returned([D EXCEPT !.jurisdictions = @ \cup {new}], id)

\* UPDATE instruments SET jurisdiction_id = ? WHERE id = ?  (the column was
\* added by migrate_1_to_2 without REFERENCES; trg_instruments_updated_at fires).
set_instrument_jurisdiction(D, instrument_id, jurisdiction_id, now) ==
    IF ~Prepares("instruments", {"jurisdiction_id", "id"})
    THEN OperationalError(D)
    ELSE Returned([D EXCEPT !.instruments =
            {IF r.id = instrument_id
             THEN [r EXCEPT !.jurisdiction_id = jurisdiction_id, !.updated_at = now]
             ELSE r : r \in @}], NoId)

upsert_tag(D, name, now) ==
    IF ~Prepares("tags", {"name"})
    THEN OperationalError(D)
    ELSE IF \E r \in D.tags : r.name = name
    THEN Returned(D, (CHOOSE r \in D.tags : r.name = name).id)
    ELSE LET id == NewId(D.tags)
             new == [id |-> id, name |-> name, created_at |-> now, updated_at |-> now]
         IN Returned([D EXCEPT !.tags = @ \cup {new}], id)

upsert_fragment_tag(D, fragment_id, tag_id) ==
    IF ~Prepares("fragment_tags", {"fragment_id", "tag_id"})
    THEN OperationalError(D)
    ELSE IF \E r \in D.fragment_tags : r.fragment_id = fragment_id /\ r.tag_id = tag_id
    THEN Returned(D, NoId)
    ELSE IF FkViolation(D.fragments, fragment_id) \/ FkViolation(D.tags, tag_id)
    THEN IntegrityError(D)
    ELSE Returned([D EXCEPT !.fragment_tags =
            @ \cup {[fragment_id |-> fragment_id, tag_id |-> tag_id]}], NoId)

insert_fragment_version_link(D, from_fragment_id, to_snapshot_id, link_type, created_at) ==
    IF ~Prepares("fragment_links", {"from_fragment_id", "to_snapshot_id", "link_type",
                                    "created_at"})
    THEN OperationalError(D)
    ELSE IF \E r \in D.fragment_links : /\ r.from_fragment_id = from_fragment_id
                                        /\ r.to_snapshot_id = to_snapshot_id
                                        /\ r.link_type = link_type
    THEN Returned(D, (CHOOSE r \in D.fragment_links :
                        /\ r.from_fragment_id = from_fragment_id
                        /\ r.to_snapshot_id = to_snapshot_id
                        /\ r.link_type = link_type).id)
    ELSE IF FkViolation(D.fragments, from_fragment_id)
            \/ FkViolation(D.snapshots, to_snapshot_id)
    THEN IntegrityError(D)
    ELSE LET id == NewId(D.fragment_links)
             new == [id |-> id, from_fragment_id |-> from_fragment_id,
                     to_snapshot_id |-> to_snapshot_id, link_type |-> link_type,
                     created_at |-> created_at]
         IN Returned([D EXCEPT !.fragment_links = @ \cup {new}], id)

upsert_annex(D, fragment_id, pdf_url, content_sha256, conversion_status, metadata_json) ==
    IF ~Prepares("annexes", AnnexCols \ {"id"})
    THEN OperationalError(D)
    ELSE IF \E r \in D.annexes : r.fragment_id = fragment_id /\ r.pdf_url = pdf_url
    THEN LET old == CHOOSE r \in D.annexes :
                        r.fragment_id = fragment_id /\ r.pdf_url = pdf_url
             new == [old EXCEPT !.content_sha256 = content_sha256,
                                !.conversion_status = conversion_status,
                                !.metadata_json = metadata_json]
         IN Returned([D EXCEPT !.annexes = (@ \ {old}) \cup {new}], old.id)
    ELSE IF FkViolation(D.fragments, fragment_id) THEN IntegrityError(D)
    ELSE LET id == NewId(D.annexes)
             new == [id |-> id, fragment_id |-> fragment_id, pdf_url |-> pdf_url,
                     content_sha256 |-> content_sha256,
                     conversion_status |-> conversion_status,
                     metadata_json |-> metadata_json]
         IN Returned([D EXCEPT !.annexes = @ \cup {new}], id)

\* ------------------------------------------------------ API call actions
\* The connection is the one init_db returned; the call happens at time clock.
Call(op, args, R) ==
    /\ pc = "returned"
    /\ ops < MaxOps
    /\ ops' = ops + 1
    /\ clock' = clock + 1
    /\ db' = R.db
    /\ ret' = R.ret
    /\ in_txn' = R.txn
    /\ last' = [op |-> op, args |-> args]
    /\ UNCHANGED <<migVars, fk_on, crawlVars, fetchVars, toolVars>>

UpsertInstrument ==
    \E name \in Names, url \in Urls, meta \in Metas :
        Call("upsert_instrument", <<name, url, meta>>,
             upsert_instrument(db, name, url, meta, clock))

UpsertFragment ==
    \E i \in ArgIds, code \in Codes, meta \in Metas :
        Call("upsert_fragment", <<i, code, meta>>, upsert_fragment(db, i, code, meta, clock))

UpsertCurrent ==
    \E f \in ArgIds, text \in Texts :
        Call("upsert_current", <<f, text>>,
             upsert_current(db, f, None, text, sha256_hex(text), clock, None))

UpsertSnapshot ==
    \E f \in ArgIds, date \in Dates, url \in Urls, text \in Texts, etag \in Etags :
        Call("upsert_snapshot", <<f, date, url, text, etag>>,
             upsert_snapshot(db, f, date, url, text, sha256_hex(text), clock, etag,
                             None, None))

InsertFragmentVersionLink ==
    \E f \in ArgIds, sn \in ArgIds, t \in LinkTypes :
        Call("insert_fragment_version_link", <<f, sn, t>>,
             insert_fragment_version_link(db, f, sn, t, clock))

UpsertAnnex ==
    \E f \in ArgIds, pdf \in PdfUrls, st \in Statuses :
        Call("upsert_annex", <<f, pdf, st>>,
             upsert_annex(db, f, pdf, sha256_hex(pdf), st, None))

UpsertJurisdiction ==
    \E code \in JurCodes, name \in JurNames :
        Call("upsert_jurisdiction", <<code, name>>,
             upsert_jurisdiction(db, code, name, None, clock))

SetInstrumentJurisdiction ==
    \E i \in ArgIds, j \in ArgIds :
        Call("set_instrument_jurisdiction", <<i, j>>,
             set_instrument_jurisdiction(db, i, j, clock))

UpsertTag ==
    \E name \in TagNames :
        Call("upsert_tag", <<name>>, upsert_tag(db, name, clock))

UpsertFragmentTag ==
    \E f \in ArgIds, t \in ArgIds :
        Call("upsert_fragment_tag", <<f, t>>, upsert_fragment_tag(db, f, t))

\* Stores a pipeline run leaves behind (each built with the API itself).
SeedOne ==
    LET a == upsert_instrument(EmptyDb, "n1", "u1", "m1", 1).db
        b == upsert_fragment(a, 1, "c1", None, 2).db
        c == upsert_current(b, 1, None, "t1", sha256_hex("t1"), 3, None).db
        d == upsert_snapshot(c, 1, "20200101", None, "t1", sha256_hex("t1"), 4, "e1",
                             None, None).db
    IN insert_fragment_version_link(d, 1, 1, "version", 5).db

SeedTwo ==
    LET a == upsert_snapshot(SeedOne, 1, "20240229", None, "t2", sha256_hex("t2"), 6,
                             None, None, None).db
        b == insert_fragment_version_link(a, 1, 2, "version", 7).db
        c == upsert_tag(b, "tg1", 8).db
        d == upsert_fragment_tag(c, 1, 1).db
    IN upsert_annex(d, 1, "p1", sha256_hex("p1"), "success", None).db

Seeds == { [db |-> EmptyDb, clock |-> 1],
           [db |-> SeedOne, clock |-> 6],
           [db |-> SeedTwo, clock |-> 11] }

\* The store init_db returns for a fresh file: baseline, migrate_1_to_2 and
\* migrate_2_to_3 have run (the legacy fragment_links renamed aside).
OpenedFresh ==
    LET stmts == BaselineStmts \o Migrate12Stmts \o Migrate23Head
        pre == SchemaAfter(stmts)
        legacyIdx == NamesAfter(Migrate23Head, "drop_index") IN
    [schema |-> [t \in DOMAIN pre \cup {"fragment_links_legacy"} |->
                    CASE t = "fragment_links_legacy" -> pre["fragment_links"]
                      [] t = "fragment_links" -> [cols |-> LinkCols, rows |-> {}]
                      [] OTHER -> pre[t]],
     indexes |-> (NamesAfter(stmts, "create_index") \ legacyIdx)
                    \cup NamesAfter(Migrate23Tail, "create_index"),
     triggers |-> NamesAfter(stmts, "create_trigger"),
     user_version |-> 3, linkcols |-> LegacyLinkCols, in_txn |-> FALSE]

InitUpsert ==
    /\ schema = OpenedFresh.schema
    /\ indexes = OpenedFresh.indexes
    /\ triggers = OpenedFresh.triggers
    /\ user_version = OpenedFresh.user_version
    /\ linkcols = OpenedFresh.linkcols
    /\ in_txn = FALSE
    /\ fk_on = TRUE
    /\ pc = "returned"
    /\ step = 2
    /\ idx = 1
    /\ uv = 2
    /\ opens = 1
    /\ faults = 0
    /\ uv0 = 0
    /\ legacy0 = {}
    /\ failedSteps = {}
    /\ outcome = "none"
    /\ \E sd \in Seeds : db = sd.db /\ clock = sd.clock
    /\ ret = [err |-> "none", id |-> NoId]
    /\ last = NoCall
    /\ ops = 0
    /\ CrawlIdle
    /\ FetchIdle
    /\ ToolIdle

NextUpsert ==
    \/ UpsertInstrument
    \/ UpsertFragment
    \/ UpsertCurrent
    \/ UpsertSnapshot
    \/ InsertFragmentVersionLink
    \/ UpsertAnnex
    \/ UpsertJurisdiction
    \/ SetInstrumentJurisdiction
    \/ UpsertTag
    \/ UpsertFragmentTag

SpecUpsert == InitUpsert /\ [][NextUpsert]_vars

\* The state InitUpsert starts from, as a predicate on the migration's state.
FreshOpenReturned ==
    /\ pc = "returned"
    /\ uv0 = 0
    /\ faults = 0
    /\ CurStore = OpenedFresh
    /\ step = 2 /\ idx = 1 /\ uv = 2 /\ opens = 1 /\ fk_on /\ legacy0 = {}

\* The state V2Store({}) describes, as init_db leaves it after migrate_1_to_2.
FreshAtV2 ==
    /\ pc = "running" /\ step = 2 /\ idx = 1 /\ uv0 = 0 /\ faults = 0
    /\ [CurStore EXCEPT !.in_txn = FALSE] = V2Store({})

\* ======================================================= Part 3: history crawl
\* The days on which the commands run (time.strftime('%Y%m%d')): the k-th
\* command runs on Days[k], the later ones on the last day.
Days == <<"20250101", "20250102", "20250103">>
DayOfRun(k) == IF k < Len(Days) THEN k ELSE Len(Days)

\* The date enumerate_versions gives an anchor of its second rule.
Unknown == "unknown"

\* The single instrument of the output directory and the --base-url of extract.
Instrument == "law"
BaseUrl == "u1"

\* History hrefs of a fragment; code is the value of the href's ?code= query
\* parameter, None when the href has none.
H1 == [href |-> "h1", code |-> None]
H2 == [href |-> "h2", code |-> None]
H3 == [href |-> "h3", code |-> "se:2"]

\* The hrefs discover_fragment_history_links collects before de-duplicating,
\* in the order of its two loops (an <a> around a history <img> whose href also
\* holds 'historique' is collected twice).
RawLinks == { <<>>, <<H1, H1>>, <<H1, H2>>, <<H1, H3>> }

\* Anchors of a listing page: date is the 8-digit token the regular expression
\* of enumerate_versions finds in the href (None when it finds none), param
\* tells whether the href contains 'historique='.
Anchor(href, date, param) == [href |-> href, date |-> date, param |-> param]
A1 == Anchor("v#20200101", "20200101", FALSE)
A2 == Anchor("v#20240229", "20240229", FALSE)
A3 == Anchor("w/20200101", "20200101", FALSE)
Q1 == Anchor("v?historique=1", None, TRUE)
Q2 == Anchor("v?historique=2", None, TRUE)
Plain == Anchor("about", None, FALSE)

Both == Anchor("v?historique=3#20250804", "20250804", TRUE)
Anchors == {A1, A2, A3, Q1, Q2, Plain, Both}

\* Listing pages the server may return, and a fetch that raised.
Listing(anchors) == [ok |-> TRUE, anchors |-> anchors]
FetchFailed == [ok |-> FALSE, anchors |-> <<>>]

\* Every page of at most MaxAnchors anchors.
AllPages ==
    {Listing(a) : a \in UNION {[1..n -> Anchors] : n \in 0..MaxAnchors}} \cup {FetchFailed}

\* The pages the listing URLs of the crawled instrument return over time.
CrawlPages == { Listing(<<A1, A2>>), Listing(<<Q1>>), FetchFailed }

\* --history-max-dates: -1 stands for None and for any negative value (both
\* leave the list uncut: `is not None and >= 0`).
MaxDatesChoices == {-1, 0, 1, 2}
\* extract's default: history_max_dates = None.
CrawlMaxDates == {-1}

\* `seen = set(); out = []; for x in s: if x not in seen: out.append(x)`
RECURSIVE Dedup(_)
Dedup(s) ==
    IF s = <<>> THEN <<>>
    ELSE LET out == Dedup(SubSeq(s, 1, Len(s) - 1))
             x == s[Len(s)] IN
         IF \E i \in DOMAIN out : out[i] = x THEN out ELSE Append(out, x)

discover_fragment_history_links(raw) == Dedup(raw)

_fragment_code_from_history_href(link) == IF link.code = None THEN "se:1" ELSE link.code

HasDateToken(a) == a.date # None
HasDateParam(a) == a.param

enumerate_versions_cap_first(pg, cap) ==
    IF ~pg.ok THEN <<>>
    ELSE LET tok == SelectSeq(pg.anchors, HasDateToken)
             par == SelectSeq(pg.anchors, HasDateParam)
             items == IF tok # <<>>
                      THEN [i \in DOMAIN tok |-> [date |-> tok[i].date, href |-> tok[i].href]]
                      ELSE [i \in DOMAIN par |-> [date |-> Unknown, href |-> par[i].href]]
             cut == IF cap >= 0 /\ cap < Len(items) THEN SubSeq(items, 1, cap) ELSE items
         IN Dedup(cut)

enumerate_versions(pg, cap) ==
    IF ~pg.ok THEN <<>>
    ELSE LET tok == SelectSeq(pg.anchors, HasDateToken)
             par == SelectSeq(pg.anchors, HasDateParam)
             items == IF tok # <<>>
                      THEN [i \in DOMAIN tok |-> [date |-> tok[i].date, href |-> tok[i].href]]
                      ELSE [i \in DOMAIN par |-> [date |-> Unknown, href |-> par[i].href]]
             uniq == Dedup(items)
         IN IF cap >= 0 /\ cap < Len(uniq) THEN SubSeq(uniq, 1, cap) ELSE uniq

\* A file system: path -> text.
WriteFile(F, path, text) ==
    [p \in DOMAIN F \cup {path} |-> IF p = path THEN text ELSE F[p]]

\* `date if re.match(r'^\d{8}$', date) else time.strftime('%Y%m%d')`
SafeDate(date, day) == IF date = Unknown THEN Days[day] ELSE date

SnapshotPath(code, date, day) == <<"history", code, SafeDate(date, day)>>

\* snapshot(): the text fetched, or the text synthesized when the fetch
\* raised, wrapped as the fragment's section and written to the file of
\* (code, date); the path is returned in both cases.
snapshot(F, code, date, href, ok, day) ==
    LET html == IF ok THEN <<"page", href>> ELSE <<"Snapshot", date>>
        frag_html == <<"div", code, html>>
        path == SnapshotPath(code, date, day)
    IN [path |-> path, files |-> WriteFile(F, path, frag_html)]

\* index: a dict in insertion order, as a sequence of [code, items].
IndexCodes(ix) == {ix[i].code : i \in DOMAIN ix}
IndexItems(ix, code) == ix[CHOOSE i \in DOMAIN ix : ix[i].code = code].items

\* `index[frag_code] = out_items`
IndexSet(ix, code, items) ==
    IF code \in IndexCodes(ix)
    THEN [i \in DOMAIN ix |-> IF ix[i].code = code THEN [code |-> code, items |-> items]
                              ELSE ix[i]]
    ELSE Append(ix, [code |-> code, items |-> items])

\* The <<code, date>> pairs a written index lists.
IndexKeys(ix) ==
    UNION { {<<ix[i].code, ix[i].items[k].date>> : k \in DOMAIN ix[i].items} :
            i \in DOMAIN ix }

\* What init_db returns with for the store S when no statement fails: a new
\* file ends at version 3, a store at version 3 runs migrate_3_to_4, whose
\* CREATE TABLE IF NOT EXISTS statements find their tables.
InitDbReturn(S) ==
    CASE S.user_version = 0 -> OpenedFresh
      [] S.user_version = 3 -> [S EXCEPT !.user_version = LatestVersion]
      [] OTHER -> S

\* Variables no pipeline action touches.
crawlFrame == <<step, idx, uv, opens, faults, uv0, legacy0, failedSteps, outcome,
                last, ops, fetchVars, toolVars>>

\* The locals of extract() and of crawl_from_fragment.
extractLocals == <<max_dates, links, li, page, versions, vi, out_items, index, ci, snaps>>

\* extract() returns: its locals are gone (snaps, the record of the run's
\* snapshot calls, is kept until the next run starts).
ExtractReturn ==
    /\ cpc' = "done"
    /\ max_dates' = -1
    /\ links' = <<>>
    /\ li' = 1
    /\ page' = [ok |-> TRUE, anchors |-> <<>>]
    /\ versions' = <<>>
    /\ vi' = 1
    /\ out_items' = <<>>
    /\ index' = <<>>
    /\ ci' = 1
    /\ snaps' = snaps

storeVars == <<user_version, schema, indexes, triggers, linkcols>>

\* extract(): `conn = lrn_persist.init_db(resolved_db_path)`, with the options
\* of this run.
ExtractOpen ==
    /\ cpc \in {"idle", "done"}
    /\ runs < MaxRuns
    /\ runs' = runs + 1
    /\ today' = DayOfRun(runs + 1)
    /\ \E cap \in CrawlMaxDates : max_dates' = cap
    /\ clock' = clock + 1
    /\ SetStore(InitDbReturn(CurStore))
    /\ pc' = "returned"
    /\ fk_on' = TRUE
    /\ cpc' = "opened"
    /\ snaps' = {}
    /\ UNCHANGED <<db, ret, links, li, page, versions, vi, out_items, index,
                   files, indexjson, current, ci, rc, indexed, placeholders, fetchFaults,
                   crawlFrame>>

\* extract(), lines 1403-1411: init_db raised (the store file cannot be
\* opened); the exception is caught, a warning printed and conn set to None.
\* The store is left as it was.
ConnIsNone == pc = "raised"

ExtractOpenFails ==
    /\ cpc \in {"idle", "done"}
    /\ runs < MaxRuns
    /\ runs' = runs + 1
    /\ today' = DayOfRun(runs + 1)
    /\ \E cap \in CrawlMaxDates : max_dates' = cap
    /\ clock' = clock + 1
    /\ pc' = "raised"
    /\ cpc' = "opened"
    /\ snaps' = {}
    /\ UNCHANGED <<storeVars, in_txn, fk_on, db, ret, links, li, page, versions, vi,
                   out_items, index, files, indexjson, current, ci, rc, indexed,
                   placeholders, fetchFaults, crawlFrame>>

\* extract(), from the loop over the inputs to the first statement of
\* crawl_from_fragment: current.xhtml is written, the instrument row is
\* upserted, an empty index.json is put in place when there is none, and the
\* history links of the fragment are discovered.
ExtractStartOn(raws) ==
    /\ cpc = "opened"
    /\ \E raw \in raws :
        /\ links' = discover_fragment_history_links(raw)
        /\ cpc' = IF raw = <<>> THEN "finish" ELSE "link"
    /\ current' = [exists |-> TRUE, text |-> <<"fragment">>]
    /\ IF ConnIsNone
       THEN UNCHANGED <<db, ret, in_txn>>
       ELSE LET R == upsert_instrument(db, Instrument, BaseUrl, None, clock) IN
            /\ db' = R.db
            /\ ret' = R.ret
            /\ in_txn' = R.txn
    /\ indexjson' = IF indexjson.exists THEN indexjson ELSE [exists |-> TRUE, data |-> <<>>]
    /\ li' = 1
    /\ vi' = 1
    /\ versions' = <<>>
    /\ out_items' = <<>>
    /\ index' = <<>>
    /\ UNCHANGED <<storeVars, pc, fk_on, clock, runs, today, max_dates, page, files, ci,
                   rc, snaps, indexed, placeholders, fetchFaults, crawlFrame>>

ExtractStart == ExtractStartOn(RawLinks)

\* crawl_from_fragment: control after the body of `for link in links` ran for
\* links[li].
NextLink ==
    IF li < Len(links) THEN li' = li + 1 /\ cpc' = "link"
                       ELSE li' = li /\ cpc' = "finish"

\* crawl_from_fragment: `versions = self.enumerate_versions(link)`; with no
\* version the inner loop and `if out_items` do nothing.
EnumerateVersionsOn(pages) ==
    /\ cpc = "link"
    /\ \E pg \in pages :
        /\ pg.ok \/ fetchFaults < MaxFetchFaults
        /\ fetchFaults' = IF pg.ok THEN fetchFaults ELSE fetchFaults + 1
        /\ page' = pg
        /\ versions' = enumerate_versions(pg, max_dates)
        /\ IF enumerate_versions(pg, max_dates) = <<>>
           THEN NextLink
           ELSE li' = li /\ cpc' = "snap"
    /\ vi' = 1
    /\ out_items' = <<>>
    /\ UNCHANGED <<storeVars, in_txn, pc, fk_on, db, clock, ret, runs, today, max_dates,
                   links, index, files, indexjson, current, ci, rc, snaps, indexed,
                   placeholders, crawlFrame>>

EnumerateVersions == EnumerateVersionsOn(CrawlPages)

\* crawl_from_fragment: one pass of `for it in versions`, and after the last
\* one `if out_items: index[frag_code] = out_items`.
Snapshot ==
    /\ cpc = "snap"
    /\ \E ok \in BOOLEAN :
        /\ ok \/ fetchFaults < MaxFetchFaults
        /\ fetchFaults' = IF ok THEN fetchFaults ELSE fetchFaults + 1
        /\ LET it == versions[vi]
               frag_code == _fragment_code_from_history_href(links[li])
               S == snapshot(files, frag_code, it.date, it.href, ok, today)
               items == Append(out_items, [date |-> it.date, path |-> S.path]) IN
            /\ files' = S.files
            /\ snaps' = snaps \cup {[link |-> li, code |-> frag_code, date |-> it.date,
                                     href |-> it.href, ok |-> ok, path |-> S.path]}
            /\ out_items' = items
            /\ IF vi < Len(versions)
               THEN /\ vi' = vi + 1
                    /\ UNCHANGED <<index, li, cpc>>
               ELSE /\ vi' = vi
                    /\ index' = IndexSet(index, frag_code, items)
                    /\ NextLink
    /\ UNCHANGED <<storeVars, in_txn, pc, fk_on, db, clock, ret, runs, today, max_dates,
                   links, page, versions, indexjson, current, ci, rc, indexed,
                   placeholders, crawlFrame>>

\* crawl_from_fragment after the loop: the placeholder when the index is
\* empty, then build_index writes history/index.json.
PlaceholderPath == <<"history", "se:1", Days[today]>>

FinishCrawl ==
    /\ cpc = "finish"
    /\ LET ix == IF index = <<>>
                 THEN <<[code |-> "se:1",
                         items |-> <<[date |-> Days[today], path |-> PlaceholderPath]>>]>>
                 ELSE index IN
        /\ index' = ix
        /\ indexjson' = [exists |-> TRUE, data |-> ix]
        /\ indexed' = indexed \cup IndexKeys(ix)
    /\ IF index = <<>>
       THEN /\ files' = WriteFile(files, PlaceholderPath, <<"div", "se:1", "HIST FR 8.2">>)
            /\ placeholders' = placeholders \cup {<<"se:1", Days[today]>>}
       ELSE UNCHANGED <<files, placeholders>>
    /\ cpc' = "persist"
    /\ UNCHANGED <<storeVars, in_txn, pc, fk_on, db, clock, ret, runs, today, max_dates,
                   links, li, page, versions, vi, out_items, current, ci, rc, snaps,
                   fetchFaults, crawlFrame>>

\* What the post-crawl sync and db import-history read from history/index.json.
IndexDataFromFiles ==
    LET codes == {p[2] : p \in DOMAIN files}
        itemsOf(c) == LET ps == {p \in DOMAIN files : p[2] = c}
                          f == CHOOSE g \in [1..Cardinality(ps) -> ps] :
                                    \A a, b \in 1..Cardinality(ps) : a # b => g[a] # g[b]
                      IN [k \in 1..Cardinality(ps) |-> [date |-> f[k][3], path |-> f[k]]]
        cs == CHOOSE g \in [1..Cardinality(codes) -> codes] :
                    \A a, b \in 1..Cardinality(codes) : a # b => g[a] # g[b]
    IN [k \in 1..Cardinality(codes) |-> [code |-> cs[k], items |-> itemsOf(cs[k])]]

IndexData == IF indexjson.exists THEN indexjson.data ELSE <<>>

InstrumentId(D) == (CHOOSE r \in D.instruments : r.name = Instrument).id

\* extract() after the crawl: the Versions lists are injected into
\* current.xhtml, the publishing files are written, and the instrument, its
\* se:1 fragment and the current page are persisted.  An exception of one of
\* these calls ends the persistence of this input (except at line 1820).
PersistCurrent ==
    /\ cpc = "persist"
    /\ LET text == <<"current", index>>
           a == upsert_instrument(db, Instrument, BaseUrl, None, clock)
           b == upsert_fragment(a.db, a.ret.id, "se:1", None, clock)
           c == upsert_current(b.db, b.ret.id, BaseUrl, text, sha256_hex(text), clock, None)
           R == IF a.ret.err # "none" THEN a ELSE IF b.ret.err # "none" THEN b ELSE c IN
        /\ current' = [exists |-> TRUE, text |-> text]
        /\ IF ConnIsNone
           THEN UNCHANGED <<db, ret, in_txn>> /\ ExtractReturn
           ELSE /\ db' = R.db
                /\ ret' = R.ret
                /\ in_txn' = R.txn
                /\ IF R.ret.err # "none" \/ IndexData = <<>>
                   THEN ExtractReturn
                   ELSE cpc' = "sync" /\ UNCHANGED extractLocals
    /\ UNCHANGED <<storeVars, pc, fk_on, clock, runs, today, files, indexjson, rc,
                   indexed, placeholders, fetchFaults, crawlFrame>>

\* The body of `for it in entries`: the snapshot file is read (an unreadable
\* one is skipped), its Snapshot row upserted, the row's id selected and the
\* "version" link inserted (an exception of the link insert is swallowed).
RECURSIVE SyncEntries(_, _, _, _, _)
SyncEntries(D, frag_id, items, F, now) ==
    IF items = <<>> THEN Returned(D, NoId)
    ELSE LET it == Head(items) IN
         IF it.path \notin DOMAIN F THEN SyncEntries(D, frag_id, Tail(items), F, now)
         ELSE LET text == F[it.path]
                  R == upsert_snapshot(D, frag_id, it.date, None, text, sha256_hex(text),
                                       now, None, None, None)
                  rows == {r \in R.db.snapshots :
                             r.fragment_id = frag_id /\ r.date = it.date}
                  L == IF rows = {} THEN R.db
                       ELSE insert_fragment_version_link(R.db, frag_id,
                                (CHOOSE r \in rows : TRUE).id, "version", now).db
              IN IF R.ret.err # "none" THEN R
                 ELSE SyncEntries(L, frag_id, Tail(items), F, now)

\* Post-crawl sync, one pass of `for frag_code, entries in index_data.items()`.
SyncFragment ==
    /\ cpc = "sync"
    /\ LET e == IndexData[ci]
           f == upsert_fragment(db, InstrumentId(db), e.code, None, clock)
           R == IF f.ret.err # "none" THEN f
                ELSE SyncEntries(f.db, f.ret.id, e.items, files, clock) IN
        /\ db' = R.db
        /\ ret' = R.ret
        /\ in_txn' = R.txn
        /\ IF R.ret.err = "none" /\ ci < Len(IndexData)
           THEN /\ ci' = ci + 1
                /\ cpc' = "sync"
                /\ UNCHANGED <<max_dates, links, li, page, versions, vi, out_items, index,
                               snaps>>
           ELSE ExtractReturn
    /\ UNCHANGED <<storeVars, pc, fk_on, clock, runs, today, files, indexjson, current,
                   rc, indexed, placeholders, fetchFaults, crawlFrame>>

\* db import-history.  Without an output directory, and in dry-run mode, it
\* returns 0 and writes nothing.  In apply mode it opens the store, upserts
\* the first instrument and then evaluates `_is_legisquebec_host(base_url)`
\* (line 994), where base_url is no name of that function or of the module:
\* NameError leaves _import_history_run, _cmd_db_import_history and main.
ImportHistory ==
    /\ cpc \in {"idle", "done"}
    /\ runs < MaxRuns
    /\ runs' = runs + 1
    /\ \E dry_run \in BOOLEAN :
        IF ~current.exists \/ dry_run
        THEN /\ rc' = [dry_run |-> dry_run, code |-> "0"]
             /\ UNCHANGED <<storeVars, in_txn, pc, fk_on, db, ret, clock>>
        ELSE LET S == InitDbReturn(CurStore)
                 R == upsert_instrument(db, Instrument, None, None, clock) IN
             /\ user_version' = S.user_version
             /\ UNCHANGED <<schema, indexes, triggers, linkcols>>
             /\ pc' = "returned"
             /\ fk_on' = TRUE
             /\ db' = R.db
             /\ ret' = R.ret
             /\ in_txn' = R.txn
             /\ clock' = clock + 1
             /\ rc' = [dry_run |-> FALSE, code |-> "NameError"]
    /\ cpc' = "idle"
    /\ today' = DayOfRun(runs + 1)
    /\ UNCHANGED <<max_dates, links, li, page, versions, vi, out_items, index,
                   files, indexjson, current, ci, snaps, indexed, placeholders,
                   fetchFaults, crawlFrame>>

\* No store file yet: init_db has never run.
NoStore ==
    /\ schema = FreshStore.schema
    /\ indexes = FreshStore.indexes
    /\ triggers = FreshStore.triggers
    /\ user_version = FreshStore.user_version
    /\ linkcols = {}
    /\ in_txn = FALSE
    /\ fk_on = FALSE
    /\ pc = "closed"
    /\ step = 0
    /\ idx = 1
    /\ uv = 0
    /\ opens = 0
    /\ faults = 0
    /\ uv0 = 0
    /\ legacy0 = {}
    /\ failedSteps = {}
    /\ outcome = "none"
    /\ db = EmptyDb
    /\ clock = 1
    /\ ret = [err |-> "none", id |-> NoId]
    /\ last = NoCall
    /\ ops = 0

InitCrawl == NoStore /\ CrawlIdle /\ FetchIdle /\ ToolIdle

NextCrawl ==
    \/ ExtractOpen
    \/ ExtractStart
    \/ EnumerateVersions
    \/ Snapshot
    \/ FinishCrawl
    \/ PersistCurrent
    \/ SyncFragment
    \/ ImportHistory

SpecCrawl == InitCrawl /\ [][NextCrawl]_vars

\* extract run repeatedly on one input file against a server whose responses
\* do not change: the file holds world.raw, the listing page of each history
\* link is world.pages of its href, and every version page is served.
TwicePages == { Listing(<<A1, A2>>), Listing(<<Q1>>), Listing(<<>>) }
Worlds == [raw : RawLinks, pages : [{H1.href, H2.href, H3.href} -> TwicePages]]

TwiceStart == ExtractStartOn({world.raw})
TwiceEnumerate == EnumerateVersionsOn({world.pages[links[li].href]})
TwiceSnapshot == Snapshot /\ fetchFaults' = fetchFaults

InitTwice ==
    /\ NoStore
    /\ CrawlIdle
    /\ FetchIdle
    /\ fe = FetchEntryIdle
    /\ legacy = NoLegacy
    /\ cmd = NoCmd
    /\ applied = 0
    /\ world \in Worlds

NextTwice ==
    \/ ExtractOpen
    \/ TwiceStart
    \/ TwiceEnumerate
    \/ TwiceSnapshot
    \/ FinishCrawl
    \/ PersistCurrent
    \/ SyncFragment

SpecTwice == InitTwice /\ [][NextTwice]_vars

\* The pipeline with a store that may fail to open.
NextCrawlFault ==
    \/ ExtractOpen
    \/ ExtractOpenFails
    \/ ExtractStart
    \/ EnumerateVersions
    \/ Snapshot
    \/ FinishCrawl
    \/ PersistCurrent
    \/ SyncFragment

SpecCrawlFault == InitCrawl /\ [][NextCrawlFault]_vars

\* ------------------------------------------- enumerate_versions on its own
\* crawl_from_fragment stands before `versions = self.enumerate_versions(link)`
\* for one history link, under any --history-max-dates; the listing URL may
\* return any page.
InitEnumerate ==
    /\ NoStore
    /\ FetchIdle
    /\ ToolIdle
    /\ cpc = "link"
    /\ runs = 1
    /\ today = 1
    /\ max_dates \in MaxDatesChoices
    /\ links \in {<<H1>>, <<H3>>}
    /\ li = 1
    /\ page = [ok |-> TRUE, anchors |-> <<>>]
    /\ versions = <<>>
    /\ vi = 1
    /\ out_items = <<>>
    /\ index = <<>>
    /\ files = <<>>
    /\ indexjson = [exists |-> TRUE, data |-> <<>>]
    /\ current = [exists |-> TRUE, text |-> <<"fragment">>]
    /\ ci = 1
    /\ rc = NoCommand
    /\ snaps = {}
    /\ indexed = {}
    /\ placeholders = {}
    /\ fetchFaults = 0

EnumerateAny == EnumerateVersionsOn(AllPages)

NextEnumerate == EnumerateAny

SpecEnumerate == InitEnumerate /\ [][NextEnumerate]_vars

\* ================================ Part 4: HistoryCrawler.fetch and its cache
\* Texts are sequences of characters; CR and LF are the two line-end characters.
CR == "\\r"
LF == "\\n"
FetchTexts == { <<"x">>, <<"y">>, <<"x", CR, LF>> }

\* URLs are sequences of characters too.
FetchUrls == { <<"a", "/", "p">>, <<"a", "_", "p">>, <<"b">> }
SafeChars == {"a", "b", "p", "_"}

\* `re.sub(r'[^A-Za-z0-9._-]+', '_', url)`: every maximal run of other
\* characters becomes one underscore.
RECURSIVE SubUnsafe(_)
SubUnsafe(u) ==
    IF u = <<>> THEN <<>>
    ELSE IF Head(u) \in SafeChars THEN <<Head(u)>> \o SubUnsafe(Tail(u))
    ELSE IF Len(u) > 1 /\ u[2] \notin SafeChars THEN SubUnsafe(Tail(u))
    ELSE <<"_">> \o SubUnsafe(Tail(u))

_cache_key(dir, url) == IF dir = None THEN None ELSE <<dir>> \o SubUnsafe(url) \o <<".html">>

\* open(ck, 'w', encoding='utf-8').write(text): text mode turns LF into
\* os.linesep, which is LF on the platforms LRN runs on, and leaves CR alone.
WriteText(text) == text

\* open(ck, 'r', ...).read(): text mode with universal newlines turns CR LF
\* and a lone CR into LF.
RECURSIVE ReadText(_)
ReadText(t) ==
    IF t = <<>> THEN <<>>
    ELSE IF Head(t) = CR
         THEN IF Len(t) > 1 /\ t[2] = LF THEN <<LF>> \o ReadText(Tail(Tail(t)))
                                          ELSE <<LF>> \o ReadText(Tail(t))
         ELSE <<Head(t)>> \o ReadText(Tail(t))

\* What session.get(url) gives: a text, or an exception (raise_for_status,
\* timeout, connection error).
Served(text) == [ok |-> TRUE, text |-> text]
Down == [ok |-> FALSE, text |-> <<>>]

\* fetch(url)
Fetch ==
    /\ fetched.n < MaxFetches
    /\ \E url \in FetchUrls :
        LET ck == _cache_key(cache_dir, url) IN
        IF cache_dir # None /\ ck \in DOMAIN cache
        THEN /\ fetched' = [n |-> fetched.n + 1, url |-> url, err |-> "none",
                            text |-> ReadText(cache[ck])]
             /\ firstGot' = IF url \in DOMAIN firstGot THEN firstGot
                             ELSE WriteFile(firstGot, url, ReadText(cache[ck]))
             /\ UNCHANGED <<requests, cache>>
        ELSE /\ requests' = requests + 1
             /\ IF remote[url].ok
                THEN /\ fetched' = [n |-> fetched.n + 1, url |-> url, err |-> "none",
                                    text |-> remote[url].text]
                     /\ cache' = IF cache_dir = None THEN cache
                                  ELSE WriteFile(cache, ck, WriteText(remote[url].text))
                     /\ firstGot' = IF url \in DOMAIN firstGot THEN firstGot
                                     ELSE WriteFile(firstGot, url, remote[url].text)
                ELSE /\ fetched' = [n |-> fetched.n + 1, url |-> url, err |-> "raised",
                                    text |-> <<>>]
                     /\ UNCHANGED <<cache, firstGot>>
    /\ UNCHANGED <<cache_dir, remote, migVars, connVars, apiVars, crawlVars, toolVars>>

\* The server's answer for one URL changes.
RemoteChange ==
    /\ \E url \in FetchUrls, r \in {Served(t) : t \in FetchTexts} \cup {Down} :
        /\ r # remote[url]
        /\ remote' = [remote EXCEPT ![url] = r]
    /\ UNCHANGED <<cache_dir, cache, requests, firstGot, fetched, migVars, connVars,
                   apiVars, crawlVars, toolVars>>

InitFetch ==
    /\ NoStore
    /\ CrawlIdle
    /\ ToolIdle
    /\ cache_dir \in {None, "cache"}
    /\ remote \in [FetchUrls -> {Served(<<"x">>), Down}]
    /\ cache = <<>>
    /\ requests = 0
    /\ firstGot = <<>>
    /\ fetched = [n |-> 0, url |-> <<>>, err |-> "none", text |-> <<>>]

NextFetch == Fetch \/ RemoteChange

SpecFetch == InitFetch /\ [][NextFetch]_vars

\* ================================= Part 5: scripts/corpus_ingest.fetch_entry
\* What one pass of the `while attempt <= options.retries` loop can meet:
\* a response, an HTTP error status with or without the headless fallback
\* (which works or raises), or another exception of session.get.
Outcomes == {"ok", "http", "http_headless_ok", "http_headless_failed", "exception"}

\* fetch_entry(entry, session, options) up to the loop: a present target
\* file is returned as 'skipped' under --resume.
FetchEntryCall ==
    /\ fe.pc \in {"idle", "returned"}
    /\ \E retries \in 0..MaxRetries, resume \in BOOLEAN, present \in BOOLEAN :
        fe' = IF resume /\ present
              THEN [pc |-> "returned", retries |-> retries, attempt |-> 0, gets |-> 0,
                    status |-> "skipped", error |-> None, resume |-> resume,
                    present |-> present]
              ELSE [pc |-> "loop", retries |-> retries, attempt |-> 0, gets |-> 0,
                    status |-> "none", error |-> None, resume |-> resume,
                    present |-> present]
    /\ UNCHANGED <<migVars, connVars, apiVars, crawlVars, fetchVars, legacy, cmd,
                   applied, world>>

\* One pass of the loop body.  Only the generic `except Exception` handler
\* counts the attempt; the `except HTTPError` handler sets last_error and
\* falls through to the loop test.
FetchEntryAttempt ==
    /\ fe.pc = "loop"
    /\ fe.gets < MaxGets
    /\ \E o \in Outcomes :
        fe' = CASE o \in {"ok", "http_headless_ok"} ->
                     [fe EXCEPT !.pc = "returned", !.gets = @ + 1, !.status = "fetched",
                                !.error = None, !.present = TRUE]
                [] o = "http" ->
                     [fe EXCEPT !.gets = @ + 1, !.error = "HTTPError"]
                [] o = "http_headless_failed" ->
                     [fe EXCEPT !.gets = @ + 1, !.error = "headless fallback failed"]
                [] o = "exception" ->
                     IF fe.attempt + 1 > fe.retries
                     THEN [fe EXCEPT !.pc = "returned", !.gets = @ + 1, !.attempt = @ + 1,
                                     !.status = "failed", !.error = "exception"]
                     ELSE [fe EXCEPT !.gets = @ + 1, !.attempt = @ + 1,
                                     !.error = "exception"]
    /\ UNCHANGED <<migVars, connVars, apiVars, crawlVars, fetchVars, legacy, cmd,
                   applied, world>>

InitIngest == NoStore /\ CrawlIdle /\ FetchIdle /\ ToolIdle

NextIngest == FetchEntryCall \/ FetchEntryAttempt

SpecIngest == InitIngest /\ [][NextIngest]_vars

\* ===================================================================
\* Part 6.  db import-legacy, db verify and db query (src/lrn/cli.py).
\* ===================================================================

\* A legacy date column value, kept as its digit groups and separators.
Digits(tok) ==
    CASE tok \in {"2021"} -> 4
      [] tok \in {"01", "02", "03", "04"} -> 2
      [] OTHER -> 0

\* The shape of a value: the width of each digit group, -1 for '-' or '/',
\* 0 for anything else.
Shape(s) == [i \in DOMAIN s |-> IF s[i] \in {"-", "/"} THEN -1 ELSE Digits(s[i])]

RECURSIVE Total(_)
Total(sh) == IF sh = <<>> THEN 0 ELSE Head(sh) + Total(Tail(sh))

\* _parse_date_to_yyyymmdd returned None.
NoDate == <<>>

\* The key is the triple <<YYYY, MM, DD>> of its digit groups; a value of
\* eight digits is returned as it stands.
_parse_date_to_yyyymmdd_day_first(s) ==
    LET sh == Shape(s) IN
    CASE s # <<>> /\ (\A i \in DOMAIN sh : sh[i] > 0) /\ Total(sh) = 8 -> s
      [] sh = <<4, -1, 2, -1, 2>> -> <<s[1], s[3], s[5]>>
      [] sh = <<2, -1, 2, -1, 4>> -> <<s[1], s[3], s[5]>>
      [] sh = <<4, 2>> -> <<s[1], s[2], "01">>
      [] sh = <<4>> -> <<s[1], "01", "01">>
      [] OTHER -> NoDate

_parse_date_to_yyyymmdd(s) ==
    LET sh == Shape(s) IN
    CASE s # <<>> /\ (\A i \in DOMAIN sh : sh[i] > 0) /\ Total(sh) = 8 -> s
      [] sh = <<4, -1, 2, -1, 2>> -> <<s[1], s[3], s[5]>>
      [] sh = <<2, -1, 2, -1, 4>> -> <<s[5], s[3], s[1]>>
      [] sh = <<4, 2>> -> <<s[1], s[2], "01">>
      [] sh = <<4>> -> <<s[1], "01", "01">>
      [] OTHER -> NoDate

\* 2 January 2021 in the five spellings of the comment at line 786, another
\* day, the compact form of line 797, a compact day-first value, and values
\* no pattern matches.
Day1Spellings ==
    { <<"2021", "01", "02">>,
      <<"2021", "-", "01", "-", "02">>,
      <<"2021", "/", "01", "/", "02">>,
      <<"02", "-", "01", "-", "2021">>,
      <<"02", "/", "01", "/", "2021">> }
Day1 == <<"2021", "01", "02">>
Day2 == <<"2021", "03", "04">>
Unparseable == { <<"Jan", "02">>, <<>> }
RawDates ==
    Day1Spellings \cup Unparseable
        \cup { <<"2021", "/", "03", "/", "04">>, <<"2021", "01">>, <<"02", "01", "2021">> }

\* The keys of RawDates in the order of their strings.
DateOrder ==
    << <<"02", "01", "2021">>, <<"2021", "01", "01">>, Day1, Day2 >>

\* The legacy source: one instruments row (with or without a jurisdiction
\* column value), fragments rows [id, section], current rows keyed by
\* fragment_id, snapshots rows [fragment_id, date, html] and tag_map rows
\* keyed by fragment_id.  section is <<>> when no column of line 721 exists
\* or its value is no integer (the layout of the repository's tests).
LegacyName == "legacy"
FragRow(id, section) == [id |-> id, section |-> section]
SnapRow(fid, date, html) == [fragment_id |-> fid, date |-> date, html |-> html]

SectionCodes == <<"se:1", "se:2">>

\* `sorted(tmp, key=...)`: stable, keys taken in the given order.
RECURSIVE SortByCode(_, _)
SortByCode(tmp, order) ==
    IF order = <<>> THEN <<>>
    ELSE LET Test(x) == x.code = Head(order)
         IN SelectSeq(tmp, Test) \o SortByCode(tmp, Tail(order))

RECURSIVE SortByDate(_, _)
SortByDate(tmp, order) ==
    IF order = <<>> THEN <<>>
    ELSE LET Test(x) == x.date = Head(order)
         IN SelectSeq(tmp, Test) \o SortByDate(tmp, Tail(order))

\* A numeric section gives se:{n}; with no section and no code column the
\* code is "se:1".  The rows are yielded sorted by code.
_legacy_iter_fragments(L) ==
    LET tmp == [i \in DOMAIN L.frags |->
                  [legacy_fragment_id |-> L.frags[i].id,
                   code |-> IF L.frags[i].section = <<>> THEN "se:1"
                            ELSE SectionCodes[L.frags[i].section[1]]]]
    IN SortByCode(tmp, SectionCodes)

\* The fragment-level current row (the legacy current table has a
\* fragment_id column and no instrument_id column).
_legacy_iter_current(L, fr) ==
    IF fr.legacy_fragment_id \in L.cur
    THEN [found |-> TRUE, html |-> <<"cur", fr.legacy_fragment_id>>]
    ELSE [found |-> FALSE, html |-> <<>>]

\* The rows of the fragment whose date parses and whose html is not empty,
\* sorted by date key.
_legacy_iter_snapshots(L, fr) ==
    LET Mine(r) == r.fragment_id = fr.legacy_fragment_id
        rows == SelectSeq(L.snaps, Mine)
        parsed == [i \in DOMAIN rows |->
                     [date |-> _parse_date_to_yyyymmdd(rows[i].date), html |-> rows[i].html]]
        Kept(x) == x.date # NoDate /\ x.html # ""
    IN SortByDate(SelectSeq(parsed, Kept), DateOrder)

_legacy_iter_tags(L, fr) ==
    IF fr.legacy_fragment_id \in L.tagged THEN <<"alpha">> ELSE <<>>

\* Lines 380-397: the figures of the PREVIEW line.
RECURSIVE CountSnapshots(_, _)
CountSnapshots(L, frs) ==
    IF frs = <<>> THEN 0
    ELSE Len(_legacy_iter_snapshots(L, Head(frs))) + CountSnapshots(L, Tail(frs))

\* A variant that counts every legacy snapshot row.
PreviewCounts_all_rows(L) ==
    LET frags == _legacy_iter_fragments(L) IN
    [instruments |-> 1,
     fragments |-> Len(frags),
     current |-> IF \E i \in DOMAIN frags : _legacy_iter_current(L, frags[i]).found
                 THEN 1 ELSE 0,
     snapshots |-> Len(L.snaps)]

PreviewCounts(L) ==
    LET frags == _legacy_iter_fragments(L) IN
    [instruments |-> 1,
     fragments |-> Len(frags),
     current |-> IF \E i \in DOMAIN frags : _legacy_iter_current(L, frags[i]).found
                 THEN 1 ELSE 0,
     snapshots |-> CountSnapshots(L, frags)]

\* `str(...).upper()` on the jurisdiction codes used here.
Upper(code) ==
    CASE code = "qc" -> "QC"
      [] code = "on" -> "ON"
      [] OTHER -> code

\* Lines 428-431: the QC row carries its name and level, any other code None.
DefaultJurisdiction(D, code_up, now) ==
    IF code_up = "QC" THEN upsert_jurisdiction(D, "QC", "Quebec", "province", now)
    ELSE upsert_jurisdiction(D, code_up, None, None, now)

\* `try: upsert_jurisdiction; set_instrument_jurisdiction  except Exception: pass`
\* (both calls commit): what the store holds afterwards, and whether the
\* try block ran to its end.
LinkJurisdiction(D, instrument_id, code_up, now) ==
    LET j == DefaultJurisdiction(D, code_up, now)
        s == set_instrument_jurisdiction(j.db, instrument_id, j.ret.id, now)
    IN IF j.ret.err # "none" THEN [db |-> D, done |-> FALSE]
       ELSE IF s.ret.err # "none" THEN [db |-> j.db, done |-> FALSE]
       ELSE [db |-> s.db, done |-> TRUE]

\* Lines 494-511: each yielded row is upserted on (fragment, date), the row's
\* id selected and the "version" link inserted (its exception swallowed).
RECURSIVE ImportSnapshots(_, _, _, _)

\* Lines 499-511 for the row at the head of rows, R being what its
\* upsert_snapshot returned.
LinkSnapshot(R, frag_id, rows, now) ==
    LET snap == Head(rows)
        row2 == {r \in R.db.snapshots : r.fragment_id = frag_id /\ r.date = snap.date}
        K == IF row2 = {} THEN R
             ELSE insert_fragment_version_link(R.db, frag_id,
                       (CHOOSE r \in row2 : TRUE).id, "version", now)
    IN IF R.ret.err # "none" THEN R
       ELSE ImportSnapshots(IF K.ret.err = "none" THEN K.db ELSE R.db,
                            frag_id, Tail(rows), now)

ImportSnapshots(D, frag_id, rows, now) ==
    IF rows = <<>> THEN Returned(D, NoId)
    ELSE LinkSnapshot(upsert_snapshot(D, frag_id, Head(rows).date, None, Head(rows).html,
                                      sha256_hex(Head(rows).html), now, None, None, None),
                      frag_id, rows, now)

\* Lines 513-519, inside one try block.
RECURSIVE ImportTags(_, _, _, _)
ImportTags(D, frag_id, names, now) ==
    IF names = <<>> THEN D
    ELSE LET t == upsert_tag(D, Head(names), now)
             ft == upsert_fragment_tag(t.db, frag_id, t.ret.id)
         IN IF t.ret.err # "none" THEN D
            ELSE IF ft.ret.err # "none" THEN t.db
            ELSE ImportTags(ft.db, frag_id, Tail(names), now)

\* Lines 465-519, the body of `for fr in _legacy_iter_fragments(...)`, in the
\* order of its statements: upsert_fragment (f), the jurisdiction default and
\* upsert_current (c), the snapshots (s), the tags.  An exception of
\* upsert_fragment, upsert_current or upsert_snapshot leaves the loop (it is
\* caught at line 522).
RECURSIVE ImportFragments(_, _, _, _, _, _)

\* Lines 513-519 and the next pass of the loop.
FragmentTags(s, frag_id, instrument_id, frs, L, juris_default, now) ==
    IF s.ret.err # "none" THEN s
    ELSE ImportFragments(ImportTags(s.db, frag_id, _legacy_iter_tags(L, Head(frs)), now),
                         instrument_id, Tail(frs), L, juris_default, now)

\* Lines 494-511.
FragmentSnapshots(c, frag_id, instrument_id, frs, L, juris_default, now) ==
    IF c.ret.err # "none" THEN c
    ELSE FragmentTags(ImportSnapshots(c.db, frag_id,
                                      _legacy_iter_snapshots(L, Head(frs)), now),
                      frag_id, instrument_id, frs, L, juris_default, now)

\* Lines 469-492.
FragmentCurrent(f, instrument_id, frs, L, juris_default, now) ==
    LET unset == \E r \in f.db.instruments :
                     r.id = instrument_id /\ r.jurisdiction_id = NoId
        j == IF juris_default # None /\ unset
             THEN LinkJurisdiction(f.db, instrument_id, Upper(juris_default), now).db
             ELSE f.db
        cur == _legacy_iter_current(L, Head(frs))
    IN IF f.ret.err # "none" THEN f
       ELSE FragmentSnapshots(IF cur.found
                              THEN upsert_current(j, f.ret.id, None, cur.html,
                                                  sha256_hex(cur.html), now, None)
                              ELSE Returned(j, NoId),
                              f.ret.id, instrument_id, frs, L, juris_default, now)

ImportFragments(D, instrument_id, frs, L, juris_default, now) ==
    IF frs = <<>> THEN Returned(D, NoId)
    ELSE FragmentCurrent(upsert_fragment(D, instrument_id, Head(frs).code, None, now),
                         instrument_id, frs, L, juris_default, now)

\* Lines 411-546 for the one legacy source: the instrument (i), the three
\* jurisdiction blocks, the fragments (fs), and the consolidated default at
\* the end.  ok is FALSE when an exception reached line 522.

\* Lines 527-546.
ApplyFinal(i, fs, juris_default, now) ==
    LET after == IF i.ret.err # "none" THEN i.db ELSE fs.db
        j3 == DefaultJurisdiction(after, Upper(juris_default), now)
        final == IF juris_default # None /\ j3.ret.err = "none"
                 THEN [j3.db EXCEPT !.instruments =
                         {IF r.jurisdiction_id = NoId
                          THEN [r EXCEPT !.jurisdiction_id = j3.ret.id, !.updated_at = now]
                          ELSE r : r \in @}]
                 ELSE after
    IN [db |-> final, ok |-> i.ret.err = "none" /\ fs.ret.err = "none"]

\* Lines 438-463 and the loop over the fragments; b1 is the store after the
\* block of lines 420-436.
ApplyDefaults(i, b1, L, juris_default, now) ==
    LET l2 == LinkJurisdiction(b1, i.ret.id, Upper(juris_default), now)
        f2 == upsert_fragment(l2.db, i.ret.id, "se:1", None, now)
    IN ApplyFinal(i, ImportFragments(IF juris_default = None THEN b1
                                     ELSE IF l2.done /\ f2.ret.err = "none" THEN f2.db
                                     ELSE l2.db,
                                     i.ret.id, _legacy_iter_fragments(L), L,
                                     juris_default, now),
                  juris_default, now)

\* Lines 420-436.
ApplyInstrument(i, L, juris_default, now) ==
    LET jcode == IF L.jur # None THEN L.jur ELSE juris_default
    IN ApplyDefaults(i, IF jcode # None
                        THEN LinkJurisdiction(i.db, i.ret.id, Upper(jcode), now).db
                        ELSE i.db,
                     L, juris_default, now)

ApplyLegacy(D, L, juris_default, now) ==
    ApplyInstrument(upsert_instrument(D, LegacyName, None, None, now), L, juris_default, now)

JurisDefaults == {None, "qc", "on"}
\* The choices of --name (any other value is rejected by the argument parser).
QueryNames == {"current-by-fragment", "snapshots-by-fragment",
               "instruments-by-jurisdiction", "annexes-by-fragment"}
QueryFilters == {None, "qc"}

\* Variables no command of this part touches.
toolFrame == <<step, idx, uv, opens, faults, uv0, legacy0, failedSteps, outcome, last,
               ops, today, max_dates, links, li, page, versions, vi, out_items, index,
               files, indexjson, current, ci, rc, snaps, indexed, placeholders,
               fetchFaults, fetchVars, fe, legacy, world>>

\* init_db(db_path) as the first statement that touches the store.
OpenStore ==
    /\ SetStore(InitDbReturn(CurStore))
    /\ pc' = "returned"
    /\ fk_on' = TRUE

\* A variant that opens the store before it looks at --preview.
ImportLegacyCall_open_first(previews, out_dirs, defaults) ==
    /\ cpc \in {"idle", "done"}
    /\ runs < MaxRuns
    /\ runs' = runs + 1
    /\ \E preview \in previews, out_dir \in out_dirs, juris \in defaults :
        LET c == [NoCmd EXCEPT !.name = "import-legacy", !.preview = preview,
                               !.out_dir = out_dir, !.juris = juris,
                               !.fresh = (db = EmptyDb)] IN
        /\ OpenStore
        /\ IF preview
           THEN /\ cmd' = [c EXCEPT !.rc = "0", !.counts = PreviewCounts(legacy)]
                /\ cpc' = "idle"
           ELSE /\ cmd' = c
                /\ cpc' = "legacy"
    /\ UNCHANGED <<db, clock, ret, applied, toolFrame>>

\* _cmd_db_import_legacy up to line 408.  With --preview the totals are
\* printed and the command returns (with --out-dir, _import_history_run has
\* printed its DRY-RUN line and returned first); otherwise the store is
\* opened, by _import_history_run when --out-dir is a directory and by line
\* 405 in every case.
ImportLegacyCall(previews, out_dirs, defaults) ==
    /\ cpc \in {"idle", "done"}
    /\ runs < MaxRuns
    /\ runs' = runs + 1
    /\ \E preview \in previews, out_dir \in out_dirs, juris \in defaults :
        LET c == [NoCmd EXCEPT !.name = "import-legacy", !.preview = preview,
                               !.out_dir = out_dir, !.juris = juris,
                               !.fresh = (db = EmptyDb)] IN
        IF preview
        THEN /\ cmd' = [c EXCEPT !.rc = "0", !.counts = PreviewCounts(legacy)]
             /\ cpc' = "idle"
             /\ UNCHANGED <<storeVars, in_txn, pc, fk_on>>
        ELSE /\ cmd' = c
             /\ cpc' = "legacy"
             /\ OpenStore
    /\ UNCHANGED <<db, clock, ret, applied, toolFrame>>

ImportLegacy == ImportLegacyCall(BOOLEAN, BOOLEAN, JurisDefaults)

\* Apply mode after the store is open.  With --out-dir and an instrument
\* directory in it, _import_history_run upserts that instrument and raises
\* NameError at line 994, which leaves the command; otherwise lines 410-560.
ImportLegacyApply ==
    /\ cpc = "legacy"
    /\ IF cmd.out_dir /\ current.exists
       THEN LET R == upsert_instrument(db, Instrument, None, None, clock) IN
            /\ db' = R.db
            /\ ret' = R.ret
            /\ in_txn' = R.txn
            /\ cmd' = [cmd EXCEPT !.rc = "NameError"]
            /\ applied' = applied
       ELSE LET A == ApplyLegacy(db, legacy, cmd.juris, clock) IN
            /\ db' = A.db
            /\ ret' = ret
            /\ in_txn' = FALSE
            /\ cmd' = [cmd EXCEPT !.rc = IF A.ok THEN "0" ELSE "1"]
            /\ applied' = IF A.ok THEN applied + 1 ELSE applied
    /\ clock' = clock + 1
    /\ cpc' = "idle"
    /\ UNCHANGED <<storeVars, pc, fk_on, runs, toolFrame>>

\* db import-history (_cmd_db_import_history, _import_history_run).  In
\* dry-run mode, and when the output directory holds no instrument, it prints
\* its totals or nothing and returns 0 before any store is opened.  In apply
\* mode it opens the store, upserts the first instrument and raises NameError
\* at line 994.
OutDirCounts ==
    IF ~current.exists THEN NoCounts
    ELSE [instruments |-> 1,
          fragments |-> IF IndexData = <<>> THEN 1 ELSE Len(IndexData),
          current |-> 1,
          snapshots |-> Cardinality(IndexKeys(IndexData))]

DbImportHistory ==
    /\ cpc \in {"idle", "done"}
    /\ runs < MaxRuns
    /\ runs' = runs + 1
    /\ \E dry_run \in BOOLEAN :
        LET c == [NoCmd EXCEPT !.name = "import-history", !.preview = dry_run,
                               !.out_dir = TRUE, !.fresh = (db = EmptyDb)] IN
        IF ~current.exists \/ dry_run
        THEN /\ cmd' = [c EXCEPT !.rc = "0",
                                 !.counts = IF dry_run THEN OutDirCounts ELSE NoCounts]
             /\ UNCHANGED <<storeVars, in_txn, pc, fk_on, db, ret, clock>>
        ELSE LET S == InitDbReturn(CurStore)
                 R == upsert_instrument(db, Instrument, None, None, clock) IN
             /\ user_version' = S.user_version
             /\ UNCHANGED <<schema, indexes, triggers, linkcols>>
             /\ pc' = "returned"
             /\ fk_on' = TRUE
             /\ db' = R.db
             /\ ret' = R.ret
             /\ in_txn' = R.txn
             /\ clock' = clock + 1
             /\ cmd' = [c EXCEPT !.rc = "NameError"]
    /\ cpc' = "idle"
    /\ UNCHANGED <<applied, toolFrame>>

\* The rows the instruments-by-jurisdiction query prints for a filter.
instruments_by_jurisdiction(D, filt) ==
    {<<j.code, i.name>> : <<i, j>> \in
        {p \in D.instruments \X D.jurisdictions :
            /\ p[2].id = p[1].jurisdiction_id
            /\ (filt = None \/ Upper(p[2].code) = filt)}}

\* history/*/*.html files of the output directory.
HistoryFiles == Cardinality(DOMAIN files)

\* _cmd_db_verify and _cmd_db_query, line 210 and line 113: the store is opened.
DbReportCall ==
    /\ cpc \in {"idle", "done"}
    /\ runs < MaxRuns
    /\ runs' = runs + 1
    /\ \/ \E out_dir \in BOOLEAN, strict \in BOOLEAN :
            cmd' = [NoCmd EXCEPT !.name = "verify", !.out_dir = out_dir,
                                 !.strict = strict, !.fresh = (db = EmptyDb)]
       \/ \E name \in QueryNames, filt \in QueryFilters :
            cmd' = [NoCmd EXCEPT !.name = "query", !.query = name, !.filt = filt,
                                 !.fresh = (db = EmptyDb)]
    /\ cpc' = "report"
    /\ OpenStore
    /\ UNCHANGED <<db, clock, ret, applied, toolFrame>>

\* _cmd_db_verify after line 213.  The parity lines are printed; with
\* --out-dir and an instrument without jurisdiction, the QC default is
\* attempted inside `try ... except Exception: pass` (lines 267-283).
DbVerify ==
    /\ cpc = "report"
    /\ cmd.name = "verify"
    /\ LET null_ids == {r.id : r \in {x \in db.instruments : x.jurisdiction_id = NoId}}
           jv == upsert_jurisdiction(db, "QC", "Quebec", "province", clock)
           D == IF cmd.out_dir /\ null_ids # {} /\ jv.ret.err = "none"
                THEN [jv.db EXCEPT !.instruments =
                        {IF r.id \in null_ids
                         THEN [r EXCEPT !.jurisdiction_id = jv.ret.id,
                                        !.updated_at = clock]
                         ELSE r : r \in @}]
                ELSE db
           parity_mismatch == Cardinality(db.snapshots) # HistoryFiles IN
        /\ db' = D
        /\ cmd' = [cmd EXCEPT !.rc = IF cmd.strict /\ cmd.out_dir /\ parity_mismatch
                                     THEN "2" ELSE "0"]
    /\ clock' = clock + 1
    /\ cpc' = "idle"
    /\ UNCHANGED <<storeVars, in_txn, pc, fk_on, ret, runs, applied, toolFrame>>

\* _cmd_db_query after line 116.  instruments-by-jurisdiction filtered on QC
\* first tries to create the QC row (lines 168-173).
DbQuery ==
    /\ cpc = "report"
    /\ cmd.name = "query"
    /\ LET j_tmp == upsert_jurisdiction(db, "QC", "Quebec", "province", clock)
           guard == cmd.query = "instruments-by-jurisdiction" /\ Upper(cmd.filt) = "QC" IN
        /\ db' = IF guard /\ j_tmp.ret.err = "none" THEN j_tmp.db ELSE db
        /\ cmd' = [cmd EXCEPT !.rc = IF cmd.query \in QueryNames THEN "0" ELSE "1"]
    /\ clock' = clock + 1
    /\ cpc' = "idle"
    /\ UNCHANGED <<storeVars, in_txn, pc, fk_on, ret, runs, applied, toolFrame>>

\* Legacy sources of the import commands: one fragment, two fragments that
\* both normalize to se:1 (the layout of test_cli_db_import_legacy_apply),
\* and two fragments with sections 2 and 1.
FragLayouts ==
    { <<FragRow(1, <<>>)>>,
      <<FragRow(1, <<>>), FragRow(2, <<>>)>>,
      <<FragRow(1, <<2>>), FragRow(2, <<1>>)>> }

SnapLayouts ==
    { <<>>,
      <<SnapRow(1, Day1, "v1")>>,
      <<SnapRow(1, <<"2021", "-", "01", "-", "02">>, "v1"),
        SnapRow(1, <<"02", "/", "01", "/", "2021">>, "v2")>>,
      <<SnapRow(1, Day2, "v1"), SnapRow(2, Day1, "v2")>>,
      <<SnapRow(1, <<"Jan", "02">>, "v1"), SnapRow(1, Day1, "")>>,
      <<SnapRow(1, <<"2021", "/", "01", "/", "02">>, "v1"),
        SnapRow(2, <<"02", "-", "01", "-", "2021">>, "v2")>> }

Legacies ==
    { [jur |-> j, frags |-> f, cur |-> c, snaps |-> s, tagged |-> t] :
        j \in {None, "on"}, f \in FragLayouts, c \in {{}, {1, 2}},
        s \in SnapLayouts, t \in {{}, {1}} }

\* Legacy sources of one fragment whose snapshot rows take every date value.
DateRows == { SnapRow(1, d, h) : d \in RawDates, h \in {"v1", "v2", ""} }
DateLegacies ==
    { [NoLegacy EXCEPT !.frags = <<FragRow(1, <<>>)>>, !.snaps = s] :
        s \in UNION { [1..n -> DateRows] : n \in 0..MaxSnapRows } }

\* The output directory and the store after one extract, on the first day, of
\* a fragment without history links.
ExtractedIndex ==
    <<[code |-> "se:1",
       items |-> <<[date |-> Days[1], path |-> <<"history", "se:1", Days[1]>>]>>]>>

ExtractedDb ==
    LET text == <<"current", ExtractedIndex>>
        html == <<"div", "se:1", "HIST FR 8.2">>
        a == upsert_instrument(EmptyDb, Instrument, BaseUrl, None, 2).db
        b == upsert_fragment(a, 1, "se:1", None, 2).db
        c == upsert_current(b, 1, BaseUrl, text, sha256_hex(text), 2, None).db
        d == upsert_snapshot(c, 1, Days[1], None, html, sha256_hex(html), 2, None, None,
                             None).db
    IN insert_fragment_version_link(d, 1, 1, "version", 2).db

ExtractedOnce ==
    /\ schema = OpenedFresh.schema
    /\ indexes = OpenedFresh.indexes
    /\ triggers = OpenedFresh.triggers
    /\ user_version = OpenedFresh.user_version
    /\ linkcols = OpenedFresh.linkcols
    /\ in_txn = FALSE
    /\ fk_on = TRUE
    /\ pc = "returned"
    /\ step = 0
    /\ idx = 1
    /\ uv = 0
    /\ opens = 0
    /\ faults = 0
    /\ uv0 = 0
    /\ legacy0 = {}
    /\ failedSteps = {}
    /\ outcome = "none"
    /\ db = ExtractedDb
    /\ clock = 2
    /\ ret = [err |-> "none", id |-> NoId]
    /\ last = NoCall
    /\ ops = 0
    /\ cpc = "done"
    /\ runs = 1
    /\ today = 1
    /\ max_dates = -1
    /\ links = <<>>
    /\ li = 1
    /\ page = [ok |-> TRUE, anchors |-> <<>>]
    /\ versions = <<>>
    /\ vi = 1
    /\ out_items = <<>>
    /\ index = <<>>
    /\ files = WriteFile(<<>>, <<"history", "se:1", Days[1]>>, <<"div", "se:1", "HIST FR 8.2">>)
    /\ indexjson = [exists |-> TRUE, data |-> ExtractedIndex]
    /\ current = [exists |-> TRUE, text |-> <<"current", ExtractedIndex>>]
    /\ ci = 1
    /\ rc = NoCommand
    /\ snaps = {}
    /\ indexed = {<<"se:1", Days[1]>>}
    /\ placeholders = {<<"se:1", Days[1]>>}
    /\ fetchFaults = 0

\* The target store is absent and the output directory empty, or both are
\* what an extract left.
InitLegacy ==
    /\ \/ NoStore /\ CrawlIdle
       \/ ExtractedOnce
    /\ FetchIdle
    /\ fe = FetchEntryIdle
    /\ legacy \in Legacies
    /\ cmd = NoCmd
    /\ applied = 0
    /\ world = NoWorld

NextLegacy ==
    \/ ImportLegacy
    \/ ImportLegacyApply
    \/ DbReportCall
    \/ DbVerify
    \/ DbQuery
    \/ DbImportHistory

SpecLegacy == InitLegacy /\ [][NextLegacy]_vars

ImportLegacyDates == ImportLegacyCall({FALSE}, {FALSE}, {None})

InitDates ==
    /\ NoStore
    /\ CrawlIdle
    /\ FetchIdle
    /\ fe = FetchEntryIdle
    /\ legacy \in DateLegacies
    /\ cmd = NoCmd
    /\ applied = 0
    /\ world = NoWorld

NextDates == ImportLegacyDates \/ ImportLegacyApply

SpecDates == InitDates /\ [][NextDates]_vars

\* ================================================================ claims

\* C1: opening a fresh store (marker 0) converges to the latest version: when
\* init_db returns, the marker equals the highest version a migration defines.
C1_FreshStoreConverges ==
    (pc = "returned" /\ uv0 = 0) => user_version = LatestVersion

\* C2: over any sequence of init_db calls the marker never decreases and moves
\* by exactly one at a time; a step runs only while the marker still has the
\* step's source version (so none is applied again once its target is
\* recorded); a store at or above the target is opened without changing it.
C2_MarkerMonotonic ==
    /\ [][user_version' = user_version \/ user_version' = user_version + 1]_vars
    /\ [](pc = "running" => user_version = step)
    /\ [][uv0' >= LatestVersion => (user_version' = user_version /\ pc' # "running")]_vars

C2_Witness ==
    pc = "returned" /\ uv0 = LatestVersion /\ user_version = LatestVersion /\ opens = 3

\* C3: a step that fails part-way leaves the marker at the value it had before
\* the step; the init_db call raises and returns no Store; the next init_db
\* starts with that same step; and no statement of a step is rejected by the
\* store because of what an earlier, failed attempt left behind (the only
\* rejection is the index creation after a failed PRAGMA table_info in the same
\* call), so the retry can complete.
C3_FailedStepResumes ==
    /\ [](pc = "raised" => (user_version = step /\ step \in failedSteps))
    /\ [][pc' = "raised" => user_version' = user_version]_vars
    /\ [][pc = "raised" => pc' \in {"raised", "closed"}]_vars
    /\ [][(pc = "closed" /\ outcome = "raised" /\ pc' # "closed")
            => (pc' = "running" /\ step' = step)]_vars
    /\ [](pc = "running" /\ Raises(CurStmt, CurStore)
            => (step = 2 /\ linkcols = {} /\ CurStmt.op = "create_index"
                /\ HasTable(CurStore, "fragment_links")
                /\ LegacyShape(schema["fragment_links"].cols)))

C3_Witness ==
    /\ pc = "returned"
    /\ \E j \in failedSteps : user_version > j /\ uv0 = j
    /\ failedSteps = {0, 2}

\* C4: the rows of a legacy-shape fragment_links table survive migrate_2_to_3
\* in fragment_links_legacy, next to the new-shape fragment_links; and no step
\* drops a table or removes a column (a table keeps its columns and rows, under
\* its own name or, for the legacy fragment_links, under the name it is renamed to).
C4_LegacyLinksPreserved ==
    /\ [](\A r \in legacy0 :
            \E t \in DOMAIN schema : r \in schema[t].rows /\ LegacyShape(schema[t].cols))
    /\ [](user_version >= 3 =>
            /\ HasTable(CurStore, "fragment_links_legacy")
            /\ legacy0 \subseteq schema["fragment_links_legacy"].rows
            /\ HasTable(CurStore, "fragment_links")
            /\ schema["fragment_links"].cols = LinkCols)
    /\ [][\A t \in DOMAIN schema :
            \E t2 \in DOMAIN schema' :
                /\ t2 = t \/ (t = "fragment_links" /\ t2 = "fragment_links_legacy")
                /\ schema[t].cols \subseteq schema'[t2].cols
                /\ schema[t].rows \subseteq schema'[t2].rows]_vars

C4_Witness ==
    /\ user_version >= 3
    /\ legacy0 = {1, 2}
    /\ HasTable(CurStore, "fragment_links_legacy")
    /\ schema["fragment_links_legacy"].rows = legacy0
    /\ schema["fragment_links"].rows = {}

\* --------------------------------------------- claims on the Upsert API
\* The rows of D that carry the natural key of call c.
KeyRows(D, c) ==
    CASE c.op = "upsert_instrument" -> {r \in D.instruments : r.name = c.args[1]}
      [] c.op = "upsert_fragment" ->
            {r \in D.fragments : r.instrument_id = c.args[1] /\ r.code = c.args[2]}
      [] c.op = "upsert_current" -> {r \in D.current_pages : r.fragment_id = c.args[1]}
      [] c.op = "upsert_snapshot" ->
            {r \in D.snapshots : r.fragment_id = c.args[1] /\ r.date = c.args[2]}
      [] c.op = "insert_fragment_version_link" ->
            {r \in D.fragment_links : /\ r.from_fragment_id = c.args[1]
                                      /\ r.to_snapshot_id = c.args[2]
                                      /\ r.link_type = c.args[3]}
      [] c.op = "upsert_annex" ->
            {r \in D.annexes : r.fragment_id = c.args[1] /\ r.pdf_url = c.args[2]}
      [] c.op = "upsert_jurisdiction" -> {r \in D.jurisdictions : r.code = c.args[1]}
      [] c.op = "upsert_tag" -> {r \in D.tags : r.name = c.args[1]}
      [] OTHER -> {}

\* C5: after any sequence of Upsert API calls every table holds at most one
\* row per natural key.
C5_UniqueNaturalKeys ==
    /\ \A r, q \in db.instruments : r.name = q.name => r = q
    /\ \A r, q \in db.fragments :
            (r.instrument_id = q.instrument_id /\ r.code = q.code) => r = q
    /\ \A r, q \in db.current_pages : r.fragment_id = q.fragment_id => r = q
    /\ \A r, q \in db.snapshots : (r.fragment_id = q.fragment_id /\ r.date = q.date) => r = q
    /\ \A r, q \in db.fragment_links :
            (/\ r.from_fragment_id = q.from_fragment_id
             /\ r.to_snapshot_id = q.to_snapshot_id
             /\ r.link_type = q.link_type) => r = q
    /\ \A r, q \in db.annexes : (r.fragment_id = q.fragment_id /\ r.pdf_url = q.pdf_url) => r = q
    /\ \A r, q \in db.jurisdictions : r.code = q.code => r = q
    /\ \A r, q \in db.tags : r.name = q.name => r = q

\* upsert_snapshot called on the (fragment, date) the store already held.
C5_Witness ==
    /\ last.op = "upsert_snapshot" /\ ret.err = "none" /\ ops = 1
    /\ Cardinality(db.snapshots) = 1
    /\ \E r \in db.snapshots : r.id = 1 /\ r.retrieved_at = clock - 1 /\ r.retrieved_at > 4

\* C6 as stated: after upsert_instrument(name, url, meta) there is exactly one
\* row of that name and it stores url and meta, also when they are None.
C6_LatestFieldsStored ==
    (last.op = "upsert_instrument" /\ ret.err = "none") =>
        LET rows == KeyRows(db, last) IN
        /\ Cardinality(rows) = 1
        /\ \A r \in rows : r.source_url = last.args[2] /\ r.metadata_json = last.args[3]

\* C6 amended: exactly one row of that name; it stores the call's source_url
\* (None included), and the call's metadata when that is not None; when the
\* call's metadata is None the row keeps the metadata stored before the call.
C6_LatestFieldsCoalesced ==
    [][(ops' = ops + 1 /\ last'.op = "upsert_instrument") =>
        LET olds == KeyRows(db, last')
            news == KeyRows(db', last') IN
        /\ Cardinality(news) = 1
        /\ \A r \in news :
            /\ r.source_url = last'.args[2]
            /\ r.metadata_json =
                 IF last'.args[3] # None THEN last'.args[3]
                 ELSE IF olds = {} THEN None
                 ELSE (CHOOSE o \in olds : TRUE).metadata_json]_vars

C6_Witness ==
    /\ last.op = "upsert_instrument" /\ last.args[3] = None
    /\ \E r \in db.instruments :
        /\ r.name = last.args[1] /\ r.id = ret.id
        /\ r.updated_at > r.created_at /\ r.updated_at = clock - 1
        /\ r.metadata_json = "m1" /\ r.source_url = last.args[2]

\* Every row of D is still in E with its id, its natural key and its creation
\* timestamp.
IdentityKept(D, E) ==
    /\ \A r \in D.instruments : \E q \in E.instruments :
            q.id = r.id /\ q.name = r.name /\ q.created_at = r.created_at
    /\ \A r \in D.fragments : \E q \in E.fragments :
            /\ q.id = r.id /\ q.instrument_id = r.instrument_id /\ q.code = r.code
            /\ q.created_at = r.created_at
    /\ \A r \in D.current_pages : \E q \in E.current_pages :
            q.id = r.id /\ q.fragment_id = r.fragment_id
    /\ \A r \in D.snapshots : \E q \in E.snapshots :
            q.id = r.id /\ q.fragment_id = r.fragment_id /\ q.date = r.date
    /\ \A r \in D.fragment_links : \E q \in E.fragment_links :
            /\ q.id = r.id /\ q.from_fragment_id = r.from_fragment_id
            /\ q.to_snapshot_id = r.to_snapshot_id /\ q.link_type = r.link_type
            /\ q.created_at = r.created_at
    /\ \A r \in D.annexes : \E q \in E.annexes :
            q.id = r.id /\ q.fragment_id = r.fragment_id /\ q.pdf_url = r.pdf_url
    /\ \A r \in D.tags : \E q \in E.tags :
            q.id = r.id /\ q.name = r.name /\ q.created_at = r.created_at
    /\ D.fragment_tags \subseteq E.fragment_tags

ReturnsId == {"upsert_instrument", "upsert_fragment", "insert_fragment_version_link",
              "upsert_annex", "upsert_jurisdiction", "upsert_tag"}

\* C7: a call on a natural key the store already holds returns the id of the
\* existing row; every existing row keeps its id, key and creation timestamp;
\* re-upserting a fragment leaves its snapshot and link rows as they were.
C7_ReupsertKeepsIdentity ==
    [][ops' = ops + 1 =>
        /\ IdentityKept(db, db')
        /\ (last'.op \in ReturnsId /\ KeyRows(db, last') # {})
              => \A r \in KeyRows(db, last') : ret' = [err |-> "none", id |-> r.id]
        /\ (last'.op = "upsert_fragment" /\ KeyRows(db, last') # {})
              => /\ db'.snapshots = db.snapshots
                 /\ db'.fragment_links = db.fragment_links]_vars

C7_Witness ==
    /\ last.op = "upsert_fragment" /\ ret = [err |-> "none", id |-> 1]
    /\ \E f \in db.fragments :
        /\ f.id = 1 /\ f.created_at < clock - 1
        /\ f.instrument_id = last.args[1] /\ f.code = last.args[2]
        /\ \E sn \in db.snapshots : sn.fragment_id = 1
        /\ \E l \in db.fragment_links : l.from_fragment_id = 1

\* The call names a parent row (by id) that table does not hold.
MissingParent(D, c) ==
    CASE c.op = "upsert_fragment" -> c.args[1] \notin IdsOf(D.instruments)
      [] c.op \in {"upsert_current", "upsert_snapshot", "upsert_annex"} ->
            c.args[1] \notin IdsOf(D.fragments)
      [] c.op = "insert_fragment_version_link" ->
            c.args[1] \notin IdsOf(D.fragments) \/ c.args[2] \notin IdsOf(D.snapshots)
      [] OTHER -> FALSE

\* C8: an upsert whose parent row does not exist ends in an error and leaves
\* every table as it was (no parent row is created).
C8_MissingParentIsError ==
    [][(ops' = ops + 1 /\ MissingParent(db, last'))
        => (ret'.err = "IntegrityError" /\ db' = db)]_vars

C8_Witness ==
    /\ last.op = "insert_fragment_version_link" /\ ret.err = "IntegrityError"
    /\ last.args[1] \in IdsOf(db.fragments)
    /\ last.args[2] \notin IdsOf(db.snapshots)
    /\ db.snapshots # {}

\* C9: between any two Upsert API calls the connection holds no open
\* transaction.
C9_NoOpenTransaction ==
    pc = "returned" => ~in_txn

\* C10: upsert_snapshot on an already-recorded (fragment, date) with text whose
\* hash equals the stored hash leaves the snapshots table unchanged.
C10_SameHashLeavesRow ==
    [][(/\ ops' = ops + 1
        /\ last'.op = "upsert_snapshot"
        /\ \E r \in KeyRows(db, last') : r.content_hash = sha256_hex(last'.args[4]))
        => db'.snapshots = db.snapshots]_vars

\* Rows of the store for one fragment code of the instrument.
FragmentRows(code) == {f \in db.fragments : f.code = code}
SnapshotRows(code) == {r \in db.snapshots : \E f \in FragmentRows(code) : r.fragment_id = f.id}
VersionLinks(code) ==
    {l \in db.fragment_links : /\ l.link_type = "version"
                               /\ \E f \in FragmentRows(code) : l.from_fragment_id = f.id}
IndexDates(code) == {IndexItems(IndexData, code)[k].date : k \in DOMAIN IndexItems(IndexData, code)}

\* C11: when extract has completed, for every fragment code of
\* history/index.json the number of "version" links and the number of Snapshot
\* rows of the fragment both equal the number of distinct dates of the code's
\* index entry.
C11_ParityAfterExtract ==
    cpc = "done" =>
        \A code \in IndexCodes(IndexData) :
            /\ Cardinality(VersionLinks(code)) = Cardinality(IndexDates(code))
            /\ Cardinality(SnapshotRows(code)) = Cardinality(IndexDates(code))

\* C12: db import-history in apply mode on an out_dir holding the instrument's
\* directory ends with exit code 0 and leaves one instrument row, a current
\* page row, and for every fragment code of history/index.json one fragment
\* row, as many Snapshot rows as the code has index entries and as many
\* "version" links as Snapshot rows.
C12_ImportHistoryApplies ==
    (cpc = "idle" /\ ~rc.dry_run /\ current.exists) =>
        /\ rc.code = "0"
        /\ Cardinality({r \in db.instruments : r.name = Instrument}) = 1
        /\ db.current_pages # {}
        /\ \A code \in IndexCodes(IndexData) :
            /\ Cardinality(FragmentRows(code)) = 1
            /\ Cardinality(SnapshotRows(code)) = Len(IndexItems(IndexData, code))
            /\ Cardinality(VersionLinks(code)) = Cardinality(SnapshotRows(code))

\* The Snapshot rows the store holds for a <<code, date>> pair.
RowsOf(key) == {r \in SnapshotRows(key[1]) : r.date = key[2]}

\* C13: the placeholder entry the crawl emits when it found no version never
\* gets a Snapshot row nor a "version" link in the store.
C13_PlaceholderDisplayOnly ==
    \A key \in placeholders :
        /\ RowsOf(key) = {}
        /\ ~\E l \in VersionLinks(key[1]) : \E r \in RowsOf(key) : l.to_snapshot_id = r.id

\* The index entry a snapshot call appended: its date and the path returned.
HasIndexEntry(s) ==
    /\ s.code \in IndexCodes(IndexData)
    /\ \E k \in DOMAIN IndexItems(IndexData, s.code) :
          IndexItems(IndexData, s.code)[k] = [date |-> s.date, path |-> s.path]

\* C14: when the fetch of some enumerated version failed, the crawl still
\* ends with the index written, and every enumerated version whose fetch
\* succeeded has its snapshot file and its index entry.
C14_PartialSuccess ==
    (cpc = "persist" /\ \E s \in snaps : ~s.ok) =>
        \A s \in snaps : s.ok => (s.path \in DOMAIN files /\ HasIndexEntry(s))

\* Snapshot calls of the run whose fetch failed, for a (code, date) no other
\* call of the run fetched.
FailedOnly == {s \in snaps : ~s.ok /\ ~\E t \in snaps : t.ok /\ t.code = s.code /\ t.date = s.date}

\* C15: a snapshot call whose fetch failed records nothing: after the first
\* extract on an empty out_dir, a date that was not fetched has no snapshot
\* file, no index entry, no Snapshot row and no "version" link.
C15_FailureRecordsNothing ==
    (cpc = "done" /\ runs = 1) =>
        \A s \in FailedOnly :
            /\ s.path \notin DOMAIN files
            /\ <<s.code, s.date>> \notin IndexKeys(IndexData)
            /\ RowsOf(<<s.code, s.date>>) = {}

\* The entries of a list, as a set.
Entries(seq) == {seq[i] : i \in DOMAIN seq}

\* The entries rule 1 (date token) and rule 2 (date parameter) extract from
\* the anchors of a page.
TokenEntries(pg) == {[date |-> a.date, href |-> a.href] : a \in {b \in Entries(pg.anchors) : HasDateToken(b)}}
ParamEntries(pg) == {[date |-> Unknown, href |-> a.href] : a \in {b \in Entries(pg.anchors) : HasDateParam(b)}}

\* C16: without a cap, enumerate_versions on a fetched listing page returns
\* exactly the anchors with a date token when there are some, otherwise
\* exactly the anchors with the date parameter when there are some, otherwise
\* exactly one dateless entry for the history href itself.
C16_FallbackOrder ==
    (cpc # "link" /\ page.ok /\ max_dates = -1) =>
        IF TokenEntries(page) # {} THEN Entries(versions) = TokenEntries(page)
        ELSE IF ParamEntries(page) # {} THEN Entries(versions) = ParamEntries(page)
        ELSE /\ Len(versions) = 1
             /\ versions[1].href = links[li].href

\* The entries the first applicable rule extracts, in the order of the page.
RuleItems(pg) ==
    LET tok == SelectSeq(pg.anchors, HasDateToken)
        par == SelectSeq(pg.anchors, HasDateParam)
    IN IF tok # <<>> THEN [i \in DOMAIN tok |-> [date |-> tok[i].date, href |-> tok[i].href]]
       ELSE [i \in DOMAIN par |-> [date |-> Unknown, href |-> par[i].href]]

\* Position of the first occurrence of e in seq.
FirstPos(seq, e) == CHOOSE i \in DOMAIN seq : seq[i] = e /\ \A j \in 1..(i - 1) : seq[j] # e

Min(a, b) == IF a < b THEN a ELSE b

\* C17: the list enumerate_versions returns has no two equal (date, href)
\* entries, lists entries in the order of their first occurrence on the page,
\* and under a cap N >= 0 is exactly the first N entries of the de-duplicated
\* list (all of them without a cap).
C17_DedupThenCap ==
    (cpc # "link" /\ page.ok) =>
        LET raw == RuleItems(page)
            n == Cardinality(Entries(raw)) IN
        /\ \A i, j \in DOMAIN versions : i # j => versions[i] # versions[j]
        /\ Entries(versions) \subseteq Entries(raw)
        /\ \A i, j \in DOMAIN versions :
              i < j => FirstPos(raw, versions[i]) < FirstPos(raw, versions[j])
        /\ \A e \in Entries(raw) \ Entries(versions) :
              \A v \in Entries(versions) : FirstPos(raw, v) < FirstPos(raw, e)
        /\ Len(versions) = IF max_dates >= 0 THEN Min(max_dates, n) ELSE n

\* A page listing an entry twice, under a cap that cuts the de-duplicated list.
C17_Witness ==
    /\ cpc # "link"
    /\ page.ok
    /\ Len(RuleItems(page)) > Cardinality(Entries(RuleItems(page)))
    /\ max_dates > 0
    /\ max_dates < Cardinality(Entries(RuleItems(page)))
    /\ Len(versions) = max_dates

\* C18: with a cache directory configured, a fetch of a URL that an earlier
\* fetch already got returns the content the first fetch returned and makes
\* no network request, whatever the server would answer now.
C18_CachedUrlImmutable ==
    [][(/\ cache_dir # None
        /\ fetched'.n = fetched.n + 1
        /\ fetched'.url \in DOMAIN firstGot)
        => /\ fetched'.err = "none"
           /\ fetched'.text = firstGot[fetched'.url]
           /\ requests' = requests]_vars

\* C19: when crawl_from_fragment has returned, the index holds one {date,
\* path} entry under the fragment code for every snapshot the crawl took, over
\* all history links of the fragment.
C19_IndexAccumulates ==
    cpc = "persist" => \A s \in snaps : HasIndexEntry(s)

\* The fragment code of a Snapshot row of the store D.
CodeOfRow(D, r) == (CHOOSE f \in D.fragments : f.id = r.fragment_id).code

\* C20: a snapshot call is made only for an entry that enumerate_versions
\* returned for a discovered link, and a Snapshot row for a date is written to
\* the store only when history/index.json already lists that date under the
\* row's fragment code.
C20_EnumerateSnapshotCommit ==
    [][/\ \A s \in snaps' \ snaps :
            /\ s.link \in DOMAIN links
            /\ versions = enumerate_versions(page, max_dates)
            /\ [date |-> s.date, href |-> s.href] \in Entries(versions)
       /\ \A r \in db'.snapshots \ db.snapshots :
            /\ indexjson.exists
            /\ <<CodeOfRow(db', r), r.date>> \in IndexKeys(indexjson.data)]_vars

\* An enumerated version was snapshotted, indexed and committed by a run.
C20_Witness ==
    /\ cpc = "done"
    /\ \E s \in snaps : s.ok /\ HasIndexEntry(s) /\ RowsOf(<<s.code, s.date>>) # {}

\* C27: with a cache directory, the first fetch of a URL that the server
\* answers returns that URL's own content, also when other URLs were fetched
\* and cached before it.
C27_NoCrossUrlContent ==
    [][(/\ cache_dir # None
        /\ fetched'.n = fetched.n + 1
        /\ fetched'.url \notin DOMAIN firstGot
        /\ \E u1 \in DOMAIN firstGot : u1 # fetched'.url
        /\ remote[fetched'.url].ok)
        => /\ fetched'.err = "none"
           /\ fetched'.text = remote[fetched'.url].text]_vars

\* C28: fetch_entry makes at most retries + 1 requests, a call that met only
\* failures has returned status 'failed' with a non-empty error once the
\* requests are used up, and under --resume with the target file present it
\* makes no request and returns 'skipped'.
C28_FetchEntryTerminates ==
    /\ fe.gets <= fe.retries + 1
    /\ fe.gets = fe.retries + 1 => fe.pc = "returned"
    /\ (fe.pc = "returned" /\ fe.status = "failed") => fe.error \notin {None, ""}
    /\ (fe.resume /\ fe.present /\ fe.status # "fetched") => (fe.status = "skipped" /\ fe.gets = 0)

\* Rows of the legacy snapshots table.
LegacySnapRows == {legacy.snaps[i] : i \in DOMAIN legacy.snaps}

\* db import-legacy in apply mode has run to its end.
LegacyApplied == cmd.name = "import-legacy" /\ ~cmd.preview /\ cpc = "idle" /\ cmd.rc # "none"

\* C23: the five spellings of one calendar day normalize to one YYYYMMDD
\* key; after an apply, legacy snapshot rows of the fragment that spell that
\* day (in any of the five ways) are one Snapshot row of that date, and a
\* source whose dates all fail to parse gives no Snapshot row and no error.
C23_DateSpellingsOneKey ==
    /\ \A s \in Day1Spellings : _parse_date_to_yyyymmdd(s) = Day1
    /\ \A s \in Unparseable : _parse_date_to_yyyymmdd(s) = NoDate
    /\ LegacyApplied =>
        /\ cmd.rc = "0"
        /\ (\E r \in LegacySnapRows : r.date \in Day1Spellings /\ r.html # "")
              => Cardinality({r \in db.snapshots : r.date = Day1}) = 1
        /\ (\A r \in LegacySnapRows : r.date \in Unparseable) => db.snapshots = {}

\* Two rows spelling the day differently, one of them day first, were applied.
C23_Witness ==
    /\ LegacyApplied
    /\ Len(legacy.snaps) = 2
    /\ legacy.snaps[1].date = <<"02", "/", "01", "/", "2021">>
    /\ legacy.snaps[2].date = <<"2021", "-", "01", "-", "02">>
    /\ legacy.snaps[1].html = "v1"
    /\ legacy.snaps[2].html = "v2"
    /\ Cardinality(db.snapshots) = 1

\* C25: after db import-legacy in apply mode with --jurisdiction-default C,
\* the imported instrument, which carries no jurisdiction in the legacy
\* source, is linked to the jurisdiction row of code C in upper case and is
\* listed by the instruments-by-jurisdiction query for C.
C25_DefaultJurisdictionApplied ==
    (LegacyApplied /\ cmd.rc = "0" /\ cmd.juris # None /\ legacy.jur = None)
        => /\ \E i \in db.instruments, j \in db.jurisdictions :
                /\ i.name = LegacyName
                /\ j.code = Upper(cmd.juris)
                /\ i.jurisdiction_id = j.id
           /\ <<Upper(cmd.juris), LegacyName>>
                \in instruments_by_jurisdiction(db, Upper(cmd.juris))

\* The rows of a store without their timestamps: instruments, fragments,
\* Snapshot rows with date and content hash, VersionLinks, tags.
Canonical(D) ==
    [instruments |-> {r.name : r \in D.instruments},
     fragments |-> {<<r.id, r.instrument_id, r.code>> : r \in D.fragments},
     current |-> {<<r.fragment_id, r.content_hash>> : r \in D.current_pages},
     snapshots |-> {<<r.id, r.fragment_id, r.date, r.content_hash>> : r \in D.snapshots},
     links |-> {<<r.id, r.from_fragment_id, r.to_snapshot_id, r.link_type>> :
                   r \in D.fragment_links},
     tags |-> {<<r.id, r.name>> : r \in D.tags},
     fragment_tags |-> D.fragment_tags]

\* C22: an apply run of db import-legacy on a store into which the same
\* legacy source was applied before leaves the same rows: the same
\* instruments, fragments, Snapshot rows (dates and content hashes),
\* VersionLinks and tags, and the same number of Snapshot rows.
C22_SecondImportConverges ==
    [][(cpc = "legacy" /\ applied >= 1 /\ cmd'.rc = "0")
        => /\ Canonical(db') = Canonical(db)
           /\ Cardinality(db'.snapshots) = Cardinality(db.snapshots)]_vars

\* The source of the repository's test (two fragments of code se:1 with one
\* snapshot each), tagged, has been applied twice.
C22_Witness ==
    /\ LegacyApplied
    /\ applied = 2
    /\ Len(legacy.frags) = 2
    /\ Cardinality(db.snapshots) = 2
    /\ Cardinality(db.fragment_links) = 2
    /\ db.fragment_tags # {}

\* C24: a db import-legacy --preview command (with or without --out-dir) and
\* a db import-history --dry-run command leave the target store as it was
\* (not created, not migrated, no row written) and leave the legacy source
\* as it was; they print their counts and return.
C24_PreviewReadOnly ==
    [][(runs' = runs + 1 /\ cmd'.name \in {"import-legacy", "import-history"}
            /\ cmd'.preview)
        => /\ UNCHANGED <<db, schema, indexes, triggers, user_version, legacy>>
           /\ cpc' = "idle"
           /\ cmd'.rc = "0"]_vars

\* A preview with --out-dir of a source with snapshot rows, while no store
\* exists yet.
C24_Witness ==
    /\ cmd.name = "import-legacy"
    /\ cmd.preview
    /\ cmd.out_dir
    /\ cmd.counts.snapshots = 2
    /\ user_version = 0
    /\ schema = FreshStore.schema

\* A dry run of db import-history over the output directory of an extract.
C24_WitnessDryRun ==
    /\ cmd.name = "import-history"
    /\ cmd.preview
    /\ cmd.counts.snapshots = 1
    /\ user_version = OpenedFresh.user_version

\* An apply run of db import-legacy into a store without rows has ended.
AppliedToEmpty == LegacyApplied /\ cmd.rc = "0" /\ cmd.fresh

RowCounts(D) ==
    [instruments |-> Cardinality(D.instruments),
     fragments |-> Cardinality(D.fragments),
     current |-> Cardinality(D.current_pages),
     snapshots |-> Cardinality(D.snapshots)]

DistinctKeys ==
    LET frs == _legacy_iter_fragments(legacy) IN
    /\ \A i, j \in DOMAIN frs : i # j => frs[i].code # frs[j].code
    /\ \A i \in DOMAIN frs :
        LET sn == _legacy_iter_snapshots(legacy, frs[i]) IN
        \A a, b \in DOMAIN sn : a # b => sn[a].date # sn[b].date

C29_WitnessQuery ==
    /\ cmd.name = "query"
    /\ cmd.query = "instruments-by-jurisdiction"
    /\ cmd.filt = "qc"
    /\ cmd.rc = "0"
    /\ cpc = "idle"
    /\ db.instruments # {}

\* C26: a failure local to one version/date reaches neither its siblings nor
\* the caller, while a store-level failure propagates to the top of the
\* pipeline: extract does not complete normally when the store could not be
\* opened.
C26_StoreFailurePropagates ==
    ConnIsNone => cpc # "done"

\* The number of rows of every table, and the content hashes the store holds.
TableCounts(D) == [t \in DOMAIN D |-> Cardinality(D[t])]
ContentHashes(D) ==
    {<<"current", r.fragment_id, r.content_hash>> : r \in D.current_pages}
        \cup {<<"snapshot", r.fragment_id, r.date, r.content_hash>> : r \in D.snapshots}

\* C21: running extract (history sidecars, store persistence) a second time
\* against the same input and the same remote responses leaves the row count
\* of every table and the content hashes as the first run left them, whatever
\* the time between the runs: no step of a later run changes either.
C21_SecondRunIdempotent ==
    [][(runs >= 2 /\ runs' = runs)
         => (TableCounts(db') = TableCounts(db) /\ ContentHashes(db') = ContentHashes(db))]_vars

====
